---- MODULE Spec2Model ----
(***************************************************************************)
(* A model of the data-retrieval layer of manex-ds-copilot-v3:             *)
(*   - FigmaMcpClient (src/src/services/mcpClient.ts, second class,        *)
(*     lines 193-502): the broker connection state machine, its two        *)
(*     timers and the HTTP calls it awaits;                                *)
(*   - FigmaApiService thumbnail fetching (src/src/services/figmaApi.ts);  *)
(*   - ComprehensiveFigmaApiService (the facade; its source is the second  *)
(*     half of src/src/services/mcpClient.test.ts, lines 203-1053).        *)
(* JavaScript runs the handlers on one event loop: a handler runs without  *)
(* interruption up to its next await, so every action below is one such    *)
(* run-to-await segment, and the awaited HTTP calls are "in flight"        *)
(* between two actions.                                                    *)
(***************************************************************************)
EXTENDS Integers, Sequences, FiniteSets, TLC

VARIABLES
  \* ---- FigmaMcpClient ----
  cfg,                 \* this.config (the fields the state machine reads)
  status,              \* connectionState.status
  reconnectAttempts,   \* connectionState.reconnectAttempts
  lastError,           \* connectionState.lastError
  healthCheckInterval, \* TRUE iff the setInterval handle is set (and running)
  reconnectTimeout,    \* "null" | "armed" (pending) | "fired" (handle kept, timer gone)
  reconnectDelay,      \* the delay the pending/last reconnect timer was armed with
  inflight,            \* awaited HTTP calls: how many of each continuation
  \* ---- observation (history) of the client ----
  lastOp,              \* what the last step did and what its caller observed
  tornDown,            \* disconnect() returned and connect() was not called since
  failures,            \* consecutive failures of the connection since the last
                       \* successful connect or disconnect
  \* ---- FigmaApiService.getFrameThumbnails / getLayerThumbnails ----
  thInput,             \* the frameIds / layerIds argument
  thPc,                \* "idle" (not called yet) | "running" | "done" (returned)
  thStack,             \* the active calls of fetchThumbnailsBatch / retryIndividualNodes
  thPending,           \* the ids of the image request in flight, <<>> when none
  thImages,            \* result.images
  thErrors,            \* result.errors
  thRetried,           \* result.retried
  thHist,              \* what happened to each id so far: the number of
                       \* requests that carried it, whether it entered a retry
                       \* round, whether its latest response lacked its URL
  \* ---- ComprehensiveFigmaApiService: one facade configured for the broker
  \*      ("mcp") and one configured direct-only ("token"), given the same
  \*      calls, token and remote responses ----
  fcToken,             \* connectionConfig.token (of both)
  fcCache,             \* this.cache of each
  fcResult,            \* what the last call of each returned or threw
  now,                 \* Date.now()
  fcPending,           \* the GETs of makeApiCallDirect awaiting their response
  fcStale,             \* the cache keys written by a GET that was sent before
                       \* the last disconnect()
  fcLog,               \* the entry the last per-resource method of the
                       \* direct-only facade pushed with ApiDebugger.logResponse
  ga,                  \* the call of getAllFigmaData on the direct-only facade:
                       \* where it is, its arguments, apiProgress, and the
                       \* history of its sub-fetches and progress reports
  fcHist,              \* history of the facade configured for the broker: the
                       \* transport calls its last request issued, the token
                       \* each cache entry was fetched with, and the timers
                       \* replaced broker clients were left with
  \* ---- what one request of the facade computes before any transport ----
  rqEndpoint,          \* the endpoint argument of makeApiCall
  rqParams,            \* the params argument of makeApiCall
  rqTool,              \* getToolNameForEndpoint(endpoint)
  rqKey,               \* the cacheKey of makeApiCall
  \* ---- one callTool of the client, by what it logs and hands back ----
  env,                 \* the environment a facade was constructed in, and
                       \* the connectionConfig.method its constructor chose
  tc                   \* its config.logLevel and args.token, the lines it
                       \* logged, what the broker returned, and the response
                       \* it resolved with or the message it threw

clientVars == <<cfg, status, reconnectAttempts, lastError, healthCheckInterval,
                reconnectTimeout, reconnectDelay, inflight,
                lastOp, tornDown, failures>>

thumbVars == <<thInput, thPc, thStack, thPending, thImages, thErrors, thRetried, thHist>>

facadeVars == <<fcToken, fcCache, fcResult, now, fcPending, fcStale, fcLog, ga, fcHist>>

requestVars == <<rqEndpoint, rqParams, rqTool, rqKey, env, tc>>

vars == <<clientVars, thumbVars, facadeVars, requestVars>>

----------------------------------------------------------------------------
(* Bounds of the model *)

\* at most this many awaited HTTP calls of the client at once
MaxInFlight == 2

\* consecutive failures are counted up to this number
MaxFailures == 5

\* the id lists given to a thumbnail fetch: every list of 1..MaxIds ids, and
\* lists of batchSize + 1 .. batchSize + MaxOverflow ids that span two batches
MaxIds == 3
MaxOverflow == 1

\* the clock advances at most this many times, by half the cache's
\* time-to-live each time
MaxClock == 2

\* at most this many GETs of the facade await their response
MaxPending == 2

\* ids (file ids, team ids, keys) in an endpoint have at most this many
\* characters
MaxIdLen == 2

----------------------------------------------------------------------------
(* Text: messages are sequences of characters, so that the substring tests *)
(* of the code are computed and not assumed.                               *)

\* String.prototype.includes
Includes(msg, pat) ==
  \E i \in 1..(Len(msg) - Len(pat) + 1) : SubSeq(msg, i, i + Len(pat) - 1) = pat

Txt_fetch   == <<"f","e","t","c","h">>
Txt_timeout == <<"t","i","m","e","o","u","t">>
Txt_network == <<"n","e","t","w","o","r","k">>
Txt_HTTP5   == <<"H","T","T","P"," ","5">>

\* messages of the errors fetch() can reject with, and of the error callTool
\* builds for a non-2xx response (`HTTP ${status}: ${statusText}`)
Msg_FailedToFetch == <<"F","a","i","l","e","d"," ","t","o"," ","f","e","t","c","h">>
Msg_NetworkError  == <<"N","e","t","w","o","r","k"," ","e","r","r","o","r">>
Msg_AbortTimeout  == <<"a","b","o","r","t","e","d"," ","d","u","e"," ","t","o"," ","t","i","m","e","o","u","t">>
Msg_TimedOut      == <<"s","i","g","n","a","l"," ","t","i","m","e","d"," ","o","u","t">>
Msg_HTTP503       == <<"H","T","T","P"," ","5","0","3",":"," ">>
Msg_HTTP404       == <<"H","T","T","P"," ","4","0","4",":"," ","N","o","t"," ","F","o","u","n","d">>
Msg_BadJson       == <<"U","n","e","x","p","e","c","t","e","d"," ","t","o","k","e","n">>

\* The ways the awaited POST of callTool can end: a 2xx JSON response, or a
\* failure with its cause and the message of the Error the catch block sees.
ToolOutcomes ==
  { [cause |-> "ok",      message |-> <<>>],
    [cause |-> "network", message |-> Msg_FailedToFetch],
    [cause |-> "network", message |-> Msg_NetworkError],
    [cause |-> "timeout", message |-> Msg_AbortTimeout],
    [cause |-> "timeout", message |-> Msg_TimedOut],
    [cause |-> "http5xx", message |-> Msg_HTTP503],
    [cause |-> "http4xx", message |-> Msg_HTTP404],
    [cause |-> "parse",   message |-> Msg_BadJson] }

----------------------------------------------------------------------------
(* FigmaMcpClient *)

Statuses == {"disconnected", "connecting", "connected", "reconnecting", "error"}

\* configurations of the client: retryAttempts 0 is a value the configuration
\* loader accepts (configManager.validateMcpConfig)
RetryAttemptsValues == {0, 2, 3}
Configs ==
  [ retryAttempts : RetryAttemptsValues, retryDelay : {1000},
    enableReconnect : BOOLEAN, enableHealthCheck : BOOLEAN ]

RECURSIVE Pow2(_)
Pow2(n) == IF n = 0 THEN 1 ELSE 2 * Pow2(n - 1)

\* `this.config.retryAttempts || 3`
MaxAttempts(c) == IF c.retryAttempts = 0 THEN 3 ELSE c.retryAttempts

\* `this.config.retryDelay || 1000`
BaseDelay(c) == IF c.retryDelay = 0 THEN 1000 ELSE c.retryDelay

\* the connection state and the timer handles, as one record
Client ==
  [ status |-> status, reconnectAttempts |-> reconnectAttempts,
    lastError |-> lastError, healthCheckInterval |-> healthCheckInterval,
    reconnectTimeout |-> reconnectTimeout, reconnectDelay |-> reconnectDelay ]

\* the connection state and the timer handles of a new FigmaMcpClient
NewClient ==
  [ status |-> "disconnected", reconnectAttempts |-> 0, lastError |-> "none",
    healthCheckInterval |-> FALSE, reconnectTimeout |-> "null", reconnectDelay |-> 0 ]

SetClient(s) ==
  /\ status' = s.status
  /\ reconnectAttempts' = s.reconnectAttempts
  /\ lastError' = s.lastError
  /\ healthCheckInterval' = s.healthCheckInterval
  /\ reconnectTimeout' = s.reconnectTimeout
  /\ reconnectDelay' = s.reconnectDelay

InFlightTotal(f) == f.connectCaller + f.connectTimer + f.health + f.tool

\* one more awaited call of kind k
Await(k) ==
  /\ InFlightTotal(inflight) < MaxInFlight
  /\ inflight' = [inflight EXCEPT ![k] = @ + 1]

\* the awaited call of kind k returns
Resume(k) ==
  /\ inflight[k] > 0
  /\ inflight' = [inflight EXCEPT ![k] = @ - 1]

\* lastOp: the operation of the last step, what its caller observed (result),
\* the status and reconnectAttempts the handler found (st, att), the cause of a
\* failure, and for a step that counts a failure of the connection its number
\* n among the consecutive failures and the delay of the timer it armed
NoOp == [op |-> "init", result |-> "none", st |-> "disconnected", att |-> 0,
         cause |-> "none", n |-> 0, delay |-> 0]

Observed(op, result, cause) ==
  [op |-> op, result |-> result, st |-> status, att |-> reconnectAttempts,
   cause |-> cause, n |-> 0, delay |-> 0]

\* scheduleReconnect(): clears a pending timer, arms a new one
scheduleReconnect(s) ==
  [s EXCEPT !.reconnectDelay = BaseDelay(cfg) * Pow2(s.reconnectAttempts),
            !.reconnectAttempts = @ + 1,
            !.status = "reconnecting",
            !.reconnectTimeout = "armed"]

\* handleConnectionLoss()
handleConnectionLoss(s) ==
  LET e == [s EXCEPT !.status = "error", !.lastError = "lost"]
  IN  IF e.reconnectAttempts < MaxAttempts(cfg) THEN scheduleReconnect(e) ELSE e

\* startHealthCheck(): clears the running interval, starts a new one
startHealthCheck(s) == [s EXCEPT !.healthCheckInterval = TRUE]

\* (mutant) disconnect() that forgets to reset reconnectAttempts
disconnect_keepsAttempts(s) ==
  [s EXCEPT !.healthCheckInterval = FALSE,
            !.reconnectTimeout = "null",
            !.reconnectDelay = 0,
            !.status = "disconnected"]

\* disconnect(): the state it leaves
disconnect(s) ==
  [s EXCEPT !.healthCheckInterval = FALSE,
            !.reconnectTimeout = "null",
            !.reconnectDelay = 0,
            !.status = "disconnected",
            !.reconnectAttempts = 0]

\* (mutant) connect() that returns early only when already connected
connectIsNoOp_onlyConnected(st) == st = "connected"

\* connect(), the guard of its first lines
connectIsNoOp(st) == st = "connected" \/ st = "connecting"

\* connect() after `await performHealthCheck` returned true
connectSucceeded(s) ==
  LET c == [s EXCEPT !.status = "connected", !.reconnectAttempts = 0,
                     !.lastError = "none"]
  IN  IF cfg.enableHealthCheck THEN startHealthCheck(c) ELSE c

\* connect(), the catch block: does it schedule a reconnect (and resolve)
\* or rethrow
connectMayRetry(s) ==
  cfg.enableReconnect /\ s.reconnectAttempts < MaxAttempts(cfg)

\* connect(), the catch block
connectFailed(s) ==
  LET e == [s EXCEPT !.status = "error", !.lastError = "connect"]
  IN  IF connectMayRetry(e) THEN scheduleReconnect(e) ELSE e

\* (mutant) a guard that lets calls through while reconnecting
requiresConnected_exceptReconnecting(st) == st \notin {"connected", "reconnecting"}

\* callTool(), the guard of its first lines (listTools has the same)
requiresConnected(st) == st # "connected"

\* callTool(), the catch block: is the error taken for a connection error
isConnectionError(message) ==
  \/ Includes(message, Txt_fetch)
  \/ Includes(message, Txt_timeout)
  \/ Includes(message, Txt_network)
  \/ Includes(message, Txt_HTTP5)

\* the periodic health check found the server unhealthy: the catch block of
\* the interval callback
healthCheckFailed(s) ==
  IF cfg.enableReconnect THEN handleConnectionLoss(s) ELSE s

\* callTool(), the catch block, for an error with this message
callToolFailed(s, message) ==
  IF isConnectionError(message) THEN handleConnectionLoss(s) ELSE s

\* the failures of a tool call that are failures of the connection
ConnectionFailures == {"network", "timeout", "http5xx"}

\* one more consecutive failure (the count saturates at MaxFailures)
CountFailure(n) == IF n < MaxFailures THEN n + 1 ELSE n

\* the delay of the reconnect timer a handler armed, 0 when it armed none:
\* every arming increments reconnectAttempts
ArmedBy(before, after) ==
  IF after.reconnectTimeout = "armed"
       /\ after.reconnectAttempts = before.reconnectAttempts + 1
    THEN after.reconnectDelay ELSE 0

----------------------------------------------------------------------------
(* Actions of the client *)

ClientOnly == UNCHANGED <<thumbVars, facadeVars, requestVars>>

\* a caller calls connect(): up to `await this.performHealthCheck(serverUrl)`
Connect ==
  /\ IF connectIsNoOp(status)
       THEN /\ UNCHANGED <<status, inflight>>
            /\ lastOp' = Observed("connect", "noop", "none")
       ELSE /\ status' = "connecting"
            /\ Await("connectCaller")
            /\ lastOp' = Observed("connect", "awaiting", "none")
  /\ tornDown' = FALSE
  /\ UNCHANGED <<cfg, reconnectAttempts, lastError, healthCheckInterval,
                 reconnectTimeout, reconnectDelay, failures>>
  /\ ClientOnly

\* the health check a connect() awaits returns: the rest of connect()
ConnectResume(origin, healthy) ==
  /\ Resume(origin)
  /\ IF healthy
       THEN /\ SetClient(connectSucceeded(Client))
            /\ lastOp' = Observed(origin, "resolved", "none")
            /\ failures' = 0
       ELSE /\ SetClient(connectFailed(Client))
            /\ failures' = CountFailure(failures)
            /\ lastOp' = [Observed(origin,
                            IF connectMayRetry(Client) THEN "resolved" ELSE "rejected",
                            "unhealthy")
                            EXCEPT !.n = CountFailure(failures),
                                   !.delay = ArmedBy(Client, connectFailed(Client))]
  /\ UNCHANGED <<cfg, tornDown>>
  /\ ClientOnly

\* the reconnect timer fires: its callback calls connect()
ReconnectTimerFires ==
  /\ reconnectTimeout = "armed"
  /\ reconnectTimeout' = "fired"
  /\ IF connectIsNoOp(status)
       THEN /\ UNCHANGED <<status, inflight>>
            /\ lastOp' = Observed("reconnectTimer", "noop", "none")
       ELSE /\ status' = "connecting"
            /\ Await("connectTimer")
            /\ lastOp' = Observed("reconnectTimer", "awaiting", "none")
  /\ UNCHANGED <<cfg, reconnectAttempts, lastError, healthCheckInterval,
                 reconnectDelay, tornDown, failures>>
  /\ ClientOnly

\* the health-check interval fires while connected: up to the await
\* (with any other status the callback does nothing)
HealthCheckTick ==
  /\ healthCheckInterval
  /\ status = "connected"
  /\ Await("health")
  /\ lastOp' = Observed("healthTick", "awaiting", "none")
  /\ UNCHANGED <<cfg, status, reconnectAttempts, lastError, healthCheckInterval,
                 reconnectTimeout, reconnectDelay, tornDown, failures>>
  /\ ClientOnly

\* the periodic health check returns: the rest of the interval callback
HealthCheckResume(healthy) ==
  /\ Resume("health")
  /\ IF healthy
       THEN /\ SetClient(Client)
            /\ lastOp' = Observed("healthCheck", "healthy", "none")
            /\ UNCHANGED failures
       ELSE /\ SetClient(healthCheckFailed(Client))
            /\ failures' = CountFailure(failures)
            /\ lastOp' = [Observed("healthCheck", "unhealthy", "unhealthy")
                            EXCEPT !.n = CountFailure(failures),
                                   !.delay = ArmedBy(Client, healthCheckFailed(Client))]
  /\ UNCHANGED <<cfg, tornDown>>
  /\ ClientOnly

\* disconnect()
Disconnect ==
  /\ SetClient(disconnect(Client))
  /\ lastOp' = Observed("disconnect", "resolved", "none")
  /\ tornDown' = TRUE
  /\ failures' = 0
  /\ UNCHANGED <<cfg, inflight>>
  /\ ClientOnly

\* callTool(): up to `await fetch(...)`
CallTool ==
  /\ IF requiresConnected(status)
       THEN /\ UNCHANGED inflight
            /\ lastOp' = Observed("callTool", "notConnected", "none")
       ELSE /\ Await("tool")
            /\ lastOp' = Observed("callTool", "awaiting", "none")
  /\ UNCHANGED <<cfg, status, reconnectAttempts, lastError, healthCheckInterval,
                 reconnectTimeout, reconnectDelay, tornDown, failures>>
  /\ ClientOnly

\* the POST of a callTool returns: the rest of callTool()
CallToolResume(o) ==
  /\ Resume("tool")
  /\ IF o.cause = "ok"
       THEN /\ SetClient(Client)
            /\ lastOp' = Observed("callToolDone", "resolved", "ok")
            /\ UNCHANGED failures
       ELSE /\ SetClient(callToolFailed(Client, o.message))
            /\ failures' = IF o.cause \in ConnectionFailures
                             THEN CountFailure(failures) ELSE failures
            /\ lastOp' = [Observed("callToolDone", "rejected", o.cause)
                            EXCEPT !.n = IF o.cause \in ConnectionFailures
                                           THEN CountFailure(failures) ELSE 0,
                                   !.delay = ArmedBy(Client, callToolFailed(Client, o.message))]
  /\ UNCHANGED <<cfg, tornDown>>
  /\ ClientOnly

\* listTools()
ListTools ==
  /\ lastOp' = Observed("listTools",
                  IF requiresConnected(status) THEN "notConnected" ELSE "resolved",
                  "none")
  /\ UNCHANGED <<cfg, status, reconnectAttempts, lastError, healthCheckInterval,
                 reconnectTimeout, reconnectDelay, inflight, tornDown, failures>>
  /\ ClientOnly

ClientInit ==
  /\ cfg \in Configs
  /\ status = "disconnected"
  /\ reconnectAttempts = 0
  /\ lastError = "none"
  /\ healthCheckInterval = FALSE
  /\ reconnectTimeout = "null"
  /\ reconnectDelay = 0
  /\ inflight = [connectCaller |-> 0, connectTimer |-> 0, health |-> 0, tool |-> 0]
  /\ lastOp = NoOp
  /\ tornDown = FALSE
  /\ failures = 0

----------------------------------------------------------------------------
(* FigmaApiService: getFrameThumbnails / getLayerThumbnails (the two differ *)
(* in their log texts only), fetchThumbnailsBatch, retryIndividualNodes    *)

\* node ids are strings, modelled as sequences of characters
Id_1c2 == <<"1", ":", "2">>
Id_3c4 == <<"3", ":", "4">>
Id_bad == <<"b", "a", "d">>
Id_c1  == <<":", "1">>
Id_1cu == <<"1", ":", "_">>
NodeIds == {Id_1c2, Id_3c4, Id_bad, Id_c1, Id_1cu}

\* the characters /^[a-zA-Z0-9:-]+$/ accepts, among those the ids are made of
NodeIdChars == {"1", "2", "3", "4", "a", "b", "d", ":", "-"}

\* (mutant) validateNodeId without the test for ':'
validateNodeId_noColon(nodeId) ==
  /\ nodeId # <<>>
  /\ \A k \in 1..Len(nodeId) : nodeId[k] \in NodeIdChars
  /\ Len(nodeId) > 2

\* validateNodeId
validateNodeId(nodeId) ==
  /\ nodeId # <<>>
  /\ \A k \in 1..Len(nodeId) : nodeId[k] \in NodeIdChars
  /\ \E k \in 1..Len(nodeId) : nodeId[k] = ":"
  /\ Len(nodeId) > 2

maxRetries == 2
batchSize == 20

Range(q) == {q[k] : k \in 1..Len(q)}

\* Array.prototype.filter
RECURSIVE Filter(_, _)
Filter(q, keep) ==
  IF q = <<>> THEN <<>>
  ELSE (IF Head(q) \in keep THEN <<Head(q)>> ELSE <<>>) \o Filter(Tail(q), keep)

\* obj[id] = v for every id of ids (an object: one value per key)
Put(obj, ids, v) == [k \in DOMAIN obj \cup ids |-> IF k \in ids THEN v[k] ELSE obj[k]]

Min(x, y) == IF x < y THEN x ELSE y

\* the errors axios.get can reject with: the error code, the response status
\* (0: no response) and whether the request was sent
ThrownErrors ==
  { [code |-> "ECONNRESET",   response |-> 0,   request |-> TRUE],
    [code |-> "ETIMEDOUT",    response |-> 0,   request |-> TRUE],
    [code |-> "ECONNABORTED", response |-> 0,   request |-> TRUE],
    [code |-> "ERR_BAD_RESPONSE", response |-> 500, request |-> TRUE],
    [code |-> "ERR_BAD_REQUEST",  response |-> 404, request |-> TRUE],
    [code |-> "ERR_BAD_REQUEST",  response |-> 429, request |-> TRUE],
    [code |-> "TypeError",        response |-> 0,   request |-> FALSE] }

\* (mutant) every thrown error is taken as retryable
isRetryableError_always(e) == TRUE

\* isRetryableError
isRetryableError(e) ==
  \/ e.code = "ECONNRESET" \/ e.code = "ETIMEDOUT"
  \/ (e.response # 0 /\ (e.response >= 500 \/ e.response = 429))

\* getErrorMessage
getErrorMessage(e) ==
  IF e.response # 0 THEN <<"HTTP", e.response>>
  ELSE IF e.request THEN <<"Network error: Unable to reach Figma API">>
  ELSE <<"Request error">>

\* the texts written to result.errors
InvalidFormat(id) == <<"Invalid node ID format", id>>
ApiError == <<"API Error", "err">>
FailedAfter == <<"Failed to generate thumbnail after attempts", maxRetries + 1>>
NoThumbnail == <<"No thumbnail generated by API">>

\* the URL the remote returns for an id
UrlOf(id) == <<"url", id>>

\* the ways an image request for the ids `asked` can end: a structured error
\* (data.err), a thrown error, or an id -> URL map holding some of the ids
ImageOutcomes(asked) ==
  {[kind |-> "err", present |-> {}, error |-> CHOOSE e \in ThrownErrors : TRUE]}
  \cup {[kind |-> "thrown", present |-> {}, error |-> e] : e \in ThrownErrors}
  \cup {[kind |-> "ok", present |-> P, error |-> CHOOSE e \in ThrownErrors : TRUE]
          : P \in SUBSET Range(asked)}

\* an active call: of fetchThumbnailsBatch (kind "batch": at the batch starting
\* at index i of nodeIds) or of retryIndividualNodes (kind "individual": at
\* node i of nodeIds)
Frame(kind, nodeIds, retryCount) ==
  [kind |-> kind, nodeIds |-> nodeIds, i |-> 1, retryCount |-> retryCount]

\* (mutant) a batch request carries every id of the call
NextRequest_wholeList(f) ==
  IF f.kind = "batch" THEN f.nodeIds ELSE <<f.nodeIds[f.i]>>

\* the ids of the request the innermost call issues next
NextRequest(f) ==
  IF f.kind = "batch"
    THEN SubSeq(f.nodeIds, f.i, Min(f.i + batchSize - 1, Len(f.nodeIds)))
    ELSE <<f.nodeIds[f.i]>>

\* (mutant) the loop of fetchThumbnailsBatch steps over the batch that follows
Advance_skipsBatch(f) ==
  [f EXCEPT !.i = @ + (IF f.kind = "batch" THEN 2 * batchSize ELSE 1)]

\* the loop of a call moves on to its next batch / node
Advance(f) == [f EXCEPT !.i = @ + (IF f.kind = "batch" THEN batchSize ELSE 1)]

\* calls whose loop is over return to their caller, whose loop moves on
RECURSIVE Unwind(_)
Unwind(stack) ==
  IF stack = <<>> THEN <<>>
  ELSE LET top == stack[Len(stack)]
           rest == SubSeq(stack, 1, Len(stack) - 1)
       IN  IF top.i <= Len(top.nodeIds) THEN stack
           ELSE IF rest = <<>> THEN <<>>
           ELSE Unwind(SubSeq(rest, 1, Len(rest) - 1) \o <<Advance(rest[Len(rest)])>>)

\* the innermost call is done with its current batch / node
Continue(stack) ==
  Unwind(SubSeq(stack, 1, Len(stack) - 1) \o <<Advance(stack[Len(stack)])>>)

\* the history of the ids: `asked` are carried by a request
Asked(h, asked) ==
  [h EXCEPT !.requests = [id \in DOMAIN @ |->
     @[id] + (IF id \in Range(asked) THEN 1 ELSE 0)]]

\* the history before any response
NoResponse ==
  [kind |-> "none", error |-> CHOOSE e \in ThrownErrors : TRUE, asked |-> <<>>,
   call |-> "none", retryCount |-> 0]

\* the history of the ids: the request of the call `f` for `asked` ended as `o`
Answered(h, f, asked, o) ==
  [h EXCEPT !.missing = (@ \ Range(asked))
                          \cup (IF o.kind = "ok" THEN Range(asked) \ o.present ELSE {}),
            !.last = [kind |-> o.kind, error |-> o.error, asked |-> asked,
                      call |-> f.kind, retryCount |-> f.retryCount]]

\* the history of the ids: `ids` enter a retry round
Entered(h, ids) == [h EXCEPT !.entered = @ \cup ids]

ThumbOnly == UNCHANGED <<clientVars, facadeVars, requestVars>>

Finish(stack) ==
  /\ thStack' = stack
  /\ thPc' = IF stack = <<>> THEN "done" ELSE "running"

\* getFrameThumbnails(fileId, frameIds) with a token and a file id: up to the
\* first request of fetchThumbnailsBatch
GetThumbnails ==
  /\ thPc = "idle"
  /\ LET valid   == {id \in Range(thInput) : validateNodeId(id)}
         invalid == Range(thInput) \ valid
         validIds == Filter(thInput, valid)
     IN  /\ thErrors' = Put(<<>>, invalid, [id \in invalid |-> InvalidFormat(id)])
         /\ Finish(IF validIds = <<>> THEN <<>> ELSE <<Frame("batch", validIds, 0)>>)
  /\ thHist' = [requests |-> [id \in Range(thInput) |-> 0], missing |-> {}, entered |-> {},
              last |-> NoResponse]
  /\ UNCHANGED <<thInput, thPending, thImages, thRetried>>
  /\ ThumbOnly

\* the innermost call issues its next request and awaits the response
SendImageRequest ==
  /\ thPc = "running"
  /\ thPending = <<>>
  /\ thPending' = NextRequest(thStack[Len(thStack)])
  /\ thHist' = Asked(thHist, NextRequest(thStack[Len(thStack)]))
  /\ UNCHANGED <<thInput, thPc, thStack, thImages, thErrors, thRetried>>
  /\ ThumbOnly

\* (mutant) catch blocks that take only the retryable errors
Caught_onlyRetryable(where, e) == isRetryableError(e)

\* the catch blocks: of the batch request ("batch"), of the per-node request
\* ("individual") and of the whole of fetchThumbnailsBatch ("outer"); each
\* is `catch (error)` and takes every error
Caught(where, e) == TRUE

\* an error no catch block takes: the promise of the thumbnail fetch rejects
Reject ==
  /\ thPc' = "rejected"
  /\ thStack' = <<>>

\* the outer catch of the call `f` of fetchThumbnailsBatch: every id of the
\* call with neither a URL nor an error gets the error's message, the call
\* returns and the stack `below` it goes on
OuterCatch(f, below, e) ==
  IF Caught("outer", e)
    THEN LET rest == {id \in Range(f.nodeIds) :
                        id \notin DOMAIN thImages /\ id \notin DOMAIN thErrors}
         IN  /\ thErrors' = Put(thErrors, rest, [id \in rest |-> getErrorMessage(e)])
             /\ Finish(IF below = <<>> THEN <<>> ELSE Continue(below))
    ELSE Reject /\ UNCHANGED thErrors

\* fetchThumbnailsBatch: the response of a batch request arrives
ReceiveBatch(o) ==
  /\ thPending # <<>>
  /\ thStack[Len(thStack)].kind = "batch"
  /\ LET f == thStack[Len(thStack)]
         batch == thPending
         failedIds == Filter(batch, Range(batch) \ o.present)
         h == Answered(thHist, f, batch, o)
     IN
     CASE o.kind = "err" ->
            /\ thErrors' = Put(thErrors, Range(batch), [id \in Range(batch) |-> ApiError])
            /\ Finish(Continue(thStack))
            /\ thHist' = h
            /\ UNCHANGED <<thImages, thRetried>>
       [] o.kind = "ok" ->
            /\ thImages' = Put(thImages, o.present, [id \in o.present |-> UrlOf(id)])
            /\ IF failedIds # <<>> /\ f.retryCount < maxRetries
                 THEN /\ thRetried' = thRetried \o failedIds
                      /\ Finish(thStack \o <<Frame("batch", failedIds, f.retryCount + 1)>>)
                      /\ thHist' = Entered(h, Range(failedIds))
                      /\ UNCHANGED thErrors
                 ELSE /\ thErrors' = Put(thErrors, Range(failedIds),
                                         [id \in Range(failedIds) |-> FailedAfter])
                      /\ Finish(Continue(thStack))
                      /\ thHist' = h
                      /\ UNCHANGED thRetried
       [] o.kind = "thrown" /\ Caught("batch", o.error) ->
            IF f.retryCount < maxRetries /\ isRetryableError(o.error)
              THEN /\ Finish(thStack \o <<Frame("individual", batch, f.retryCount + 1)>>)
                   /\ thHist' = Entered(h, Range(batch))
                   /\ UNCHANGED <<thImages, thErrors, thRetried>>
              ELSE /\ thErrors' = Put(thErrors, Range(batch),
                                      [id \in Range(batch) |-> getErrorMessage(o.error)])
                   /\ Finish(Continue(thStack))
                   /\ thHist' = h
                   /\ UNCHANGED <<thImages, thRetried>>
       [] o.kind = "thrown" /\ ~Caught("batch", o.error) ->
            /\ OuterCatch(f, SubSeq(thStack, 1, Len(thStack) - 1), o.error)
            /\ thHist' = h
            /\ UNCHANGED <<thImages, thRetried>>
  /\ thPending' = <<>>
  /\ UNCHANGED thInput
  /\ ThumbOnly

\* retryIndividualNodes: the response of the request for one node arrives
ReceiveIndividual(o) ==
  /\ thPending # <<>>
  /\ thStack[Len(thStack)].kind = "individual"
  /\ LET nodeId == thPending[1]
     IN
     CASE o.kind = "err" ->
            /\ thErrors' = Put(thErrors, {nodeId}, [id \in {nodeId} |-> ApiError])
            /\ Finish(Continue(thStack))
            /\ UNCHANGED <<thImages, thRetried>>
       [] o.kind = "ok" /\ nodeId \in o.present ->
            /\ thImages' = Put(thImages, {nodeId}, [id \in {nodeId} |-> UrlOf(id)])
            /\ thRetried' = Append(thRetried, nodeId)
            /\ Finish(Continue(thStack))
            /\ UNCHANGED thErrors
       [] o.kind = "ok" /\ nodeId \notin o.present ->
            /\ thErrors' = Put(thErrors, {nodeId}, [id \in {nodeId} |-> NoThumbnail])
            /\ Finish(Continue(thStack))
            /\ UNCHANGED <<thImages, thRetried>>
       [] o.kind = "thrown" /\ Caught("individual", o.error) ->
            /\ thErrors' = Put(thErrors, {nodeId},
                               [id \in {nodeId} |-> getErrorMessage(o.error)])
            /\ Finish(Continue(thStack))
            /\ UNCHANGED <<thImages, thRetried>>
       [] o.kind = "thrown" /\ ~Caught("individual", o.error) ->
            \* retryIndividualNodes rejects inside the catch block of the
            \* call of fetchThumbnailsBatch below it
            /\ OuterCatch(thStack[Len(thStack) - 1], SubSeq(thStack, 1, Len(thStack) - 2),
                          o.error)
            /\ UNCHANGED <<thImages, thRetried>>
  /\ thHist' = Answered(thHist, thStack[Len(thStack)], thPending, o)
  /\ thPending' = <<>>
  /\ UNCHANGED thInput
  /\ ThumbOnly

\* sequences of length 1..n over S
SeqsUpTo(S, n) == UNION {[1..m -> S] : m \in 1..n}

ValidIds == {id \in NodeIds : validateNodeId(id)}

\* batchSize copies of a followed by k copies of b
Overflowing(a, b, k) == [j \in 1..(batchSize + k) |-> IF j <= batchSize THEN a ELSE b]

ThumbInputs ==
  SeqsUpTo(NodeIds, MaxIds)
  \cup {Overflowing(a, b, k) : a \in ValidIds, b \in ValidIds, k \in 1..MaxOverflow}

ThumbIdle ==
  /\ thInput = <<>>
  /\ thPc = "idle"
  /\ thStack = <<>>
  /\ thPending = <<>>
  /\ thImages = <<>>
  /\ thErrors = <<>>
  /\ thRetried = <<>>
  /\ thHist = [requests |-> <<>>, missing |-> {}, entered |-> {},
              last |-> NoResponse]

\* a client that is constructed and never used
ClientIdle ==
  /\ ClientInit
  /\ cfg = [retryAttempts |-> 3, retryDelay |-> 1000,
            enableReconnect |-> TRUE, enableHealthCheck |-> TRUE]

ThumbInit ==
  /\ thInput \in ThumbInputs
  /\ thPc = "idle"
  /\ thStack = <<>>
  /\ thPending = <<>>
  /\ thImages = <<>>
  /\ thErrors = <<>>
  /\ thRetried = <<>>
  /\ thHist = [requests |-> <<>>, missing |-> {}, entered |-> {},
              last |-> NoResponse]

----------------------------------------------------------------------------
(* ComprehensiveFigmaApiService (the facade)                               *)

Facades == {"mcp", "token"}   \* named by their connectionConfig.method

Tokens == {"", "figd_token"}

cacheTimeout == 300000

Null == "null"

\* what the remote API holds for a path
RemoteData == {"data1", "data2"}

\* the literal parts of the endpoints and of the toolMap patterns, as the
\* characters they are
Text(t) ==
  CASE t = "/comments" -> <<"/","c","o","m","m","e","n","t","s">>
    [] t = "/component_sets/" -> <<"/","c","o","m","p","o","n","e","n","t","_","s","e","t","s","/">>
    [] t = "/components" -> <<"/","c","o","m","p","o","n","e","n","t","s">>
    [] t = "/components/" -> <<"/","c","o","m","p","o","n","e","n","t","s","/">>
    [] t = "/files" -> <<"/","f","i","l","e","s">>
    [] t = "/files/" -> <<"/","f","i","l","e","s","/">>
    [] t = "/images/" -> <<"/","i","m","a","g","e","s","/">>
    [] t = "/me" -> <<"/","m","e">>
    [] t = "/nodes" -> <<"/","n","o","d","e","s">>
    [] t = "/projects" -> <<"/","p","r","o","j","e","c","t","s">>
    [] t = "/projects/" -> <<"/","p","r","o","j","e","c","t","s","/">>
    [] t = "/styles" -> <<"/","s","t","y","l","e","s">>
    [] t = "/styles/" -> <<"/","s","t","y","l","e","s","/">>
    [] t = "/teams/" -> <<"/","t","e","a","m","s","/">>
    [] t = "/versions" -> <<"/","v","e","r","s","i","o","n","s">>
    [] t = "localhost" -> <<"l","o","c","a","l","h","o","s","t">>
    [] t = "127.0.0.1" -> <<"1","2","7",".","0",".","0",".","1">>
    [] t = "netlify.app" -> <<"n","e","t","l","i","f","y",".","a","p","p">>
    [] t = "x.netlify.app" -> <<"x",".","n","e","t","l","i","f","y",".","a","p","p">>
    [] t = "example.com" -> <<"e","x","a","m","p","l","e",".","c","o","m">>
    [] t = "MCP tool call failed: " ->
         <<"M","C","P"," ","t","o","o","l"," ","c","a","l","l"," ",
           "f","a","i","l","e","d",":"," ">>

\* the per-resource methods that call makeApiCall, and the endpoint each
\* builds from its id argument
Resources ==
  {"getFile", "getComments", "getVersions", "getFileComponents", "getFileStyles",
   "getUser", "getTeamProjects", "getProjectFiles", "getComponentSet",
   "getComponent", "getStyle", "getPageThumbnails", "getPageNodes"}

Endpoint(resource, id) ==
  CASE resource = "getFile"           -> Text("/files/") \o id
    [] resource = "getComments"       -> Text("/files/") \o id \o Text("/comments")
    [] resource = "getVersions"       -> Text("/files/") \o id \o Text("/versions")
    [] resource = "getFileComponents" -> Text("/files/") \o id \o Text("/components")
    [] resource = "getFileStyles"     -> Text("/files/") \o id \o Text("/styles")
    [] resource = "getUser"           -> Text("/me")
    [] resource = "getTeamProjects"   -> Text("/teams/") \o id \o Text("/projects")
    [] resource = "getProjectFiles"   -> Text("/projects/") \o id \o Text("/files")
    [] resource = "getComponentSet"   -> Text("/component_sets/") \o id
    [] resource = "getComponent"      -> Text("/components/") \o id
    [] resource = "getStyle"          -> Text("/styles/") \o id
    [] resource = "getPageThumbnails" -> Text("/images/") \o id
    [] resource = "getPageNodes"      -> Text("/files/") \o id \o Text("/nodes")

\* toolMap, in insertion order: the pattern `pre` or `pre.*post`, and the tool
toolMap ==
  << [pre |-> Text("/files/"),          post |-> <<>>,         tool |-> "get_file"],
     [pre |-> Text("/files/"),          post |-> Text("/comments"),   tool |-> "get_comments"],
     [pre |-> Text("/files/"),          post |-> Text("/versions"),   tool |-> "get_versions"],
     [pre |-> Text("/files/"),          post |-> Text("/components"), tool |-> "get_components"],
     [pre |-> Text("/files/"),          post |-> Text("/styles"),     tool |-> "get_styles"],
     [pre |-> Text("/files/"),          post |-> Text("/nodes"),      tool |-> "get_nodes"],
     [pre |-> Text("/images/"),         post |-> <<>>,         tool |-> "get_images"],
     [pre |-> Text("/me"),             post |-> <<>>,         tool |-> "get_user"],
     [pre |-> Text("/teams/"),          post |-> Text("/projects"),   tool |-> "get_team_projects"],
     [pre |-> Text("/projects/"),       post |-> Text("/files"),      tool |-> "get_project_files"],
     [pre |-> Text("/component_sets/"), post |-> <<>>,         tool |-> "get_component_set"],
     [pre |-> Text("/components/"),     post |-> <<>>,         tool |-> "get_component"],
     [pre |-> Text("/styles/"),         post |-> <<>>,         tool |-> "get_style"] >>

\* pat occurs in s starting at position i
OccursAt(s, pat, i) ==
  /\ i + Len(pat) - 1 <= Len(s)
  /\ \A k \in 1..Len(pat) : s[i + k - 1] = pat[k]

\* endpoint.match(pattern): the pattern is an unanchored regular expression,
\* `pre` followed by any characters followed by `post`
matches(endpoint, p) ==
  \E i \in 1..(Len(endpoint) + 1) :
    /\ OccursAt(endpoint, p.pre, i)
    /\ \E j \in (i + Len(p.pre))..(Len(endpoint) + 1) : OccursAt(endpoint, p.post, j)

NoToolMapping == "No MCP tool mapping found"

\* getToolNameForEndpoint: the tool of the first entry whose pattern matches
getToolNameForEndpoint(endpoint) ==
  LET hits == {k \in 1..Len(toolMap) : matches(endpoint, toolMap[k])}
  IN  IF hits = {} THEN NoToolMapping
      ELSE toolMap[CHOOSE k \in hits : \A h \in hits : k <= h].tool

\* a params argument: undefined, or an object as its entries in insertion order
NoParams == [defined |-> FALSE, entries |-> <<>>]
Object(entries) == [defined |-> TRUE, entries |-> entries]

\* the text of one entry, `"key":value`, as tokens
EntryText(e) == <<"\"", e[1], "\"", ":", e[2]>>

\* the texts of the entries joined with ","
RECURSIVE EntriesText(_)
EntriesText(es) ==
  IF es = <<>> THEN <<>>
  ELSE IF Len(es) = 1 THEN EntryText(es[1])
  ELSE EntryText(es[1]) \o <<",">> \o EntriesText(Tail(es))

\* JSON.stringify of the params: an object is written entry by entry in
\* insertion order; `undefined` gives undefined, which the template string
\* prints as "undefined"
JSONstringify(params) ==
  IF params.defined THEN <<"{">> \o EntriesText(params.entries) \o <<"}">>
  ELSE <<"undefined">>

\* `${endpoint}-${JSON.stringify(params)}`
cacheKey(endpoint, params) == endpoint \o <<"-">> \o JSONstringify(params)

\* the calls of the two facades: getFile('F') and getTeamProjects('T')
FacadeOps == {"getFile", "getTeamProjects"}
EndpointOf(op) == IF op = "getFile" THEN Endpoint(op, <<"F">>) ELSE Endpoint(op, <<"T">>)
ParamsOf(op) == NoParams

\* the response bodies a GET can resolve with: RemoteData, or an empty body,
\* which axios hands over as ''
EmptyBody == ""
Bodies == RemoteData \cup {EmptyBody}

\* a JSON object without the fields the per-resource methods read (such as
\* the tool-call envelope of mcp-server/server.js, which callTool wraps again)
WrongShape == "{}"

\* `if (cached)`: null and '' are falsy
Truthy(x) == x \notin {Null, EmptyBody}

\* getFromCache
getFromCache(cache, key, t) ==
  IF key \in DOMAIN cache /\ t - cache[key].timestamp < cacheTimeout
    THEN cache[key].data ELSE Null

\* setCache
setCache(cache, key, data, t) ==
  [k \in DOMAIN cache \cup {key} |->
     IF k = key THEN [data |-> data, timestamp |-> t] ELSE cache[k]]

\* the ways the GET of makeApiCallDirect can end
DirectOutcomes ==
  {[kind |-> "ok", data |-> d, status |-> 200] : d \in RemoteData}
  \cup {[kind |-> "http", data |-> Null, status |-> st] : st \in {401, 404, 500}}
  \cup {[kind |-> "network", data |-> Null, status |-> 0]}

\* formatApiError, for the errors makeApiCallDirect catches
formatApiError(o) ==
  CASE o.kind = "http" /\ o.status = 401 -> "Authentication failed - check token"
    [] o.kind = "http" /\ o.status = 404 -> "Resource not found - check file/node ID"
    [] o.kind = "http" /\ o.status = 500 -> "Server error - try again later"
    [] o.kind = "network" -> "Network error - check internet connection"
    [] OTHER -> "Unknown error occurred"

Returned(data, via) == [kind |-> "data", data |-> data, by |-> via, message |-> ""]
Thrown(message, by) == [kind |-> "error", data |-> Null, by |-> by, message |-> message]
NoResult == [kind |-> "none", data |-> Null, by |-> "", message |-> ""]

\* ApiDebugger.logResponse as the per-resource methods call it: nothing when
\* the method throws, else success = true, with isMock: true for a mock
logResponse(result) ==
  IF result.kind = "error"
    THEN [type |-> "none", success |-> FALSE, isMock |-> FALSE]
    ELSE [type |-> "response", success |-> TRUE, isMock |-> (result.by = "mock")]

\* makeApiCallDirect: what it returns or throws, the cache it leaves, and the
\* number of GETs it sent (getHeaders throws before axios.get without a token)
makeApiCallDirect(token, cache, t, endpoint, params, o) ==
  IF token = ""
    THEN [result |-> Thrown("Access token is required", "direct"), cache |-> cache,
          sent |-> 0]
  ELSE IF o.kind = "ok"
    THEN [result |-> Returned(o.data, "direct"),
          cache |-> setCache(cache, cacheKey(endpoint, params), o.data, t), sent |-> 1]
  ELSE [result |-> Thrown(formatApiError(o), "direct"), cache |-> cache, sent |-> 1]

\* the bodies a 2xx response of the broker can carry: a JSON object (with or
\* without an `error` field), JSON null, a string that is not JSON, ""
BrokerBodies ==
  {[body |-> "object", data |-> d, error |-> FALSE] : d \in RemoteData \cup {WrongShape}}
  \cup {[body |-> "object", data |-> Null, error |-> TRUE],
        [body |-> "null",   data |-> Null, error |-> FALSE],
        [body |-> "text",   data |-> Null, error |-> FALSE],
        [body |-> "empty",  data |-> Null, error |-> FALSE]}

\* the ways the tool call of makeApiCallViaMcp can end: callTool rejects
\* (ToolOutcomes but "ok"), or resolves with the body as content[0].text
BrokerOutcomes ==
  {[tool |-> o, body |-> CHOOSE b \in BrokerBodies : TRUE]
     : o \in {x \in ToolOutcomes : x.cause # "ok"}}
  \cup {[tool |-> CHOOSE x \in ToolOutcomes : x.cause = "ok", body |-> b]
          : b \in BrokerBodies}

\* makeApiCallViaMcp, after callTool resolved: does it return the parsed data
\* (content.text non-empty, JSON.parse succeeds, the value has no `error`)
parsesToData(b) == b.body = "object" /\ ~b.error

\* makeApiCallViaMcp: whether it returns (ok), what, how the broker part
\* ended, the client state and cache it leaves, and the number of tool calls
\* it sent
makeApiCallViaMcp(token, cache, t, client, endpoint, params, o) ==
  IF token = ""
    THEN [ok |-> FALSE, data |-> Null, how |-> "noToken", client |-> client, cache |-> cache,
          sent |-> 0]
  ELSE IF client.status # "connected"
    THEN [ok |-> FALSE, data |-> Null, how |-> "notConnected", client |-> client, cache |-> cache,
          sent |-> 0]
  ELSE IF o.tool.cause # "ok"
    THEN [ok |-> FALSE, data |-> Null, how |-> "toolRejected",
          client |-> callToolFailed(client, o.tool.message), cache |-> cache, sent |-> 1]
  ELSE IF ~parsesToData(o.body)
    THEN [ok |-> FALSE, data |-> Null, how |-> "badResponse", client |-> client, cache |-> cache,
          sent |-> 1]
  ELSE [ok |-> TRUE, data |-> o.body.data, how |-> "ok", client |-> client,
        cache |-> setCache(cache, cacheKey(endpoint, params), o.body.data, t), sent |-> 1]

\* (mutant) makeApiCall that falls back only when the client is not connected
\* and lets the error of a failed tool call through
makeApiCall_rethrows(method, token, cache, t, client, endpoint, params, bo, do) ==
  LET cached == getFromCache(cache, cacheKey(endpoint, params), t)
      direct == makeApiCallDirect(token, cache, t, endpoint, params, do)
      viaMcp == makeApiCallViaMcp(token, cache, t, client, endpoint, params, bo)
  IN  IF Truthy(cached)
        THEN [result |-> Returned(cached, "cache"), cache |-> cache,
              client |-> client, how |-> "none",
              calls |-> [broker |-> 0, direct |-> 0]]
      ELSE IF method = "mcp"
        THEN IF viaMcp.ok
               THEN [result |-> Returned(viaMcp.data, "mcp"), cache |-> viaMcp.cache,
                     client |-> viaMcp.client, how |-> viaMcp.how,
                     calls |-> [broker |-> viaMcp.sent, direct |-> 0]]
             ELSE IF viaMcp.how \in {"toolRejected", "badResponse"}
               THEN [result |-> Thrown("MCP tool call failed", "mcp"), cache |-> cache,
                     client |-> viaMcp.client, how |-> viaMcp.how,
                     calls |-> [broker |-> viaMcp.sent, direct |-> 0]]
             ELSE [result |-> direct.result, cache |-> direct.cache,
                   client |-> viaMcp.client, how |-> viaMcp.how,
                   calls |-> [broker |-> viaMcp.sent, direct |-> direct.sent]]
      ELSE [result |-> direct.result, cache |-> direct.cache,
            client |-> client, how |-> "none",
            calls |-> [broker |-> 0, direct |-> direct.sent]]

\* (mutant) makeApiCall that sends the GET beside a tool call that succeeded
makeApiCall_bothTransports(method, token, cache, t, client, endpoint, params, bo, do) ==
  LET cached == getFromCache(cache, cacheKey(endpoint, params), t)
      direct == makeApiCallDirect(token, cache, t, endpoint, params, do)
      viaMcp == makeApiCallViaMcp(token, cache, t, client, endpoint, params, bo)
  IN  IF Truthy(cached)
        THEN [result |-> Returned(cached, "cache"), cache |-> cache,
              client |-> client, how |-> "none",
              calls |-> [broker |-> 0, direct |-> 0]]
      ELSE IF method = "mcp"
        THEN IF viaMcp.ok
               THEN [result |-> Returned(viaMcp.data, "mcp"), cache |-> viaMcp.cache,
                     client |-> viaMcp.client, how |-> viaMcp.how,
                     calls |-> [broker |-> viaMcp.sent, direct |-> direct.sent]]
               ELSE [result |-> direct.result, cache |-> direct.cache,
                     client |-> viaMcp.client, how |-> viaMcp.how,
                     calls |-> [broker |-> viaMcp.sent, direct |-> direct.sent]]
      ELSE [result |-> direct.result, cache |-> direct.cache,
            client |-> client, how |-> "none",
            calls |-> [broker |-> 0, direct |-> direct.sent]]

\* makeApiCall: the cache, then the broker if configured, then the direct
\* API; `calls` counts the tool calls and GETs it sent
makeApiCall(method, token, cache, t, client, endpoint, params, bo, do) ==
  LET cached == getFromCache(cache, cacheKey(endpoint, params), t)
      direct == makeApiCallDirect(token, cache, t, endpoint, params, do)
      viaMcp == makeApiCallViaMcp(token, cache, t, client, endpoint, params, bo)
  IN  IF Truthy(cached)
        THEN [result |-> Returned(cached, "cache"), cache |-> cache,
              client |-> client, how |-> "none",
              calls |-> [broker |-> 0, direct |-> 0]]
      ELSE IF method = "mcp"
        THEN IF viaMcp.ok
               THEN [result |-> Returned(viaMcp.data, "mcp"), cache |-> viaMcp.cache,
                     client |-> viaMcp.client, how |-> viaMcp.how,
                     calls |-> [broker |-> viaMcp.sent, direct |-> 0]]
               ELSE [result |-> direct.result, cache |-> direct.cache,
                     client |-> viaMcp.client, how |-> viaMcp.how,
                     calls |-> [broker |-> viaMcp.sent, direct |-> direct.sent]]
      ELSE [result |-> direct.result, cache |-> direct.cache,
            client |-> client, how |-> "none",
            calls |-> [broker |-> 0, direct |-> direct.sent]]

\* the property reads of a per-resource method between makeApiCall and its
\* return (result.name, result.comments.length, result.meta.styles.length...):
\* FALSE when they throw a TypeError
readsResult(op, data) ==
  CASE op \in {"getFile", "getUser"} -> data # Null
    [] OTHER -> data \notin {Null, EmptyBody, WrongShape}

\* the static dataset each per-resource method substitutes
mockData ==
  [getFile |-> "mockFigmaFile", getComments |-> "mockComments",
   getVersions |-> "mockVersions", getFileComponents |-> "mockComponents",
   getFileStyles |-> "mockStyles", getUser |-> "mockUserData"]

\* a per-resource method that lets every error of makeApiCall through
perResource_noMock(op, r) == r

\* getFile, getComments, getVersions, getFileComponents, getFileStyles and
\* getUser substitute their mock when anything in their try block throws;
\* getTeamProjects has no try block: the error of makeApiCall, or the
\* TypeError of its own read of the result, reaches the caller
perResource(op, r) ==
  IF r.result.kind = "error" \/ ~readsResult(op, r.result.data)
    THEN IF op \in DOMAIN mockData
           THEN [r EXCEPT !.result = Returned(mockData[op], "mock")]
         ELSE IF r.result.kind = "error" THEN r
         ELSE [r EXCEPT !.result = Thrown("TypeError", "read")]
    ELSE r

\* the broker fails: callTool rejects, or its response does not parse to data
BrokerFails(bo) == bo.tool.cause # "ok" \/ ~parsesToData(bo.body)

\* the call op finds nothing fresh in the cache of facade f
Misses(f, op) ==
  getFromCache(fcCache[f], cacheKey(EndpointOf(op), ParamsOf(op)), now) = Null

\* the answers a call can get: those of a failing broker when the facade
\* configured for it gets as far as callTool, those of the remote API when a
\* facade gets as far as the GET, and one unread answer otherwise
BrokerAnswers(op) ==
  IF Misses("mcp", op) /\ fcToken # "" /\ status = "connected"
    THEN {b \in BrokerOutcomes : BrokerFails(b)}
    ELSE {CHOOSE b \in BrokerOutcomes : BrokerFails(b)}

DirectAnswers(op) ==
  IF fcToken # "" /\ \E f \in Facades : Misses(f, op)
    THEN DirectOutcomes
    ELSE {CHOOSE d \in DirectOutcomes : TRUE}

FacadeOnly == UNCHANGED <<thumbVars, requestVars, ga, fcHist>>

\* both facades are asked for the same resource: the broker answers the one
\* configured for it with bo, the remote API answers a direct call with do
FacadeCall(op) ==
  \E bo \in BrokerAnswers(op), do \in DirectAnswers(op) :
  \E viaBroker \in {perResource(op, makeApiCall("mcp", fcToken, fcCache["mcp"], now,
                       Client, EndpointOf(op), ParamsOf(op), bo, do))},
     directOnly \in {perResource(op, makeApiCall("token", fcToken, fcCache["token"], now,
                       Client, EndpointOf(op), ParamsOf(op), bo, do))} :
      /\ fcResult' = [f \in Facades |-> IF f = "mcp" THEN viaBroker.result
                                                      ELSE directOnly.result]
      /\ fcCache' = [f \in Facades |-> IF f = "mcp" THEN viaBroker.cache
                                                     ELSE directOnly.cache]
      /\ SetClient(viaBroker.client)
      /\ lastOp' = Observed(op, viaBroker.result.kind, viaBroker.how)
      /\ fcLog' = logResponse(directOnly.result)
      /\ UNCHANGED <<cfg, inflight, tornDown, failures, fcToken, now, fcPending, fcStale>>
      /\ FacadeOnly

\* disconnect() of both facades: the client's disconnect(), cache.clear()
FacadeDisconnect ==
  /\ SetClient(disconnect(Client))
  /\ lastOp' = Observed("disconnect", "resolved", "none")
  /\ tornDown' = TRUE
  /\ failures' = 0
  /\ fcCache' = [f \in Facades |-> <<>>]
  /\ fcResult' = [f \in Facades |-> NoResult]
  /\ fcPending' = {[p EXCEPT !.stale = TRUE] : p \in fcPending}
  /\ fcStale' = {}
  /\ UNCHANGED <<cfg, inflight, fcToken, now, fcLog>>
  /\ FacadeOnly

\* the facade configured for the broker, alone -------------------------------

\* the methods called on it: one that substitutes a mock and reads a field
\* of the result, and one without a mock
RequestOps == {"getComments", "getTeamProjects"}

\* the tokens setConnectionConfig is given
ConfigTokens == Tokens \cup {"figd_other"}

\* the answers of the broker when the request gets as far as callTool, and
\* of the remote API when it gets as far as the GET (one unread answer
\* otherwise)
BrokerReplies(op) ==
  IF Misses("mcp", op) /\ fcToken # "" /\ status = "connected"
    THEN BrokerOutcomes
    ELSE {CHOOSE b \in BrokerOutcomes : TRUE}

DirectReplies(op, bo) ==
  IF Misses("mcp", op) /\ fcToken # "" /\ (status # "connected" \/ BrokerFails(bo))
    THEN DirectOutcomes
    ELSE {CHOOSE d \in DirectOutcomes : TRUE}

\* a per-resource method is called on the facade configured for the broker
Request(op) ==
  \E bo \in BrokerReplies(op) : \E do \in DirectReplies(op, bo) :
  \E r \in {perResource(op, makeApiCall("mcp", fcToken, fcCache["mcp"], now,
               Client, EndpointOf(op), ParamsOf(op), bo, do))} :
    LET key == cacheKey(EndpointOf(op), ParamsOf(op))
    IN  /\ fcResult' = [fcResult EXCEPT !["mcp"] = r.result]
        /\ fcCache' = [fcCache EXCEPT !["mcp"] = r.cache]
        /\ SetClient(r.client)
        /\ lastOp' = Observed(op, r.result.kind, r.how)
        /\ fcHist' = [fcHist EXCEPT
                        !.calls = r.calls,
                        !.owner = IF key \notin DOMAIN fcCache["mcp"] /\ key \in DOMAIN r.cache
                                    THEN Put(@, {key}, [k \in {key} |-> fcToken])
                                    ELSE @]
        /\ UNCHANGED <<cfg, inflight, tornDown, failures, fcToken, now, fcPending,
                       fcStale, fcLog>>
        /\ UNCHANGED <<thumbVars, requestVars, ga>>

\* setConnectionConfig({method: 'mcp', token, mcpConfig}) up to the await of
\* connect(): with a serverUrl the client is replaced by a new one, which is
\* what the fields of the client then describe (taken while no call of the
\* replaced client is in flight); then connect() unless connected
SetConnectionConfig(token, serverUrl) ==
  /\ serverUrl => InFlightTotal(inflight) = 0
  /\ fcToken' = token
  /\ LET client == IF serverUrl THEN NewClient ELSE Client
     IN  /\ IF client.status = "connected" \/ connectIsNoOp(client.status)
              THEN /\ SetClient(client)
                   /\ UNCHANGED <<inflight, tornDown>>
              ELSE /\ SetClient([client EXCEPT !.status = "connecting"])
                   /\ Await("connectCaller")
                   /\ tornDown' = FALSE
         /\ failures' = IF serverUrl THEN 0 ELSE failures
  /\ fcHist' = IF serverUrl
                 THEN [fcHist EXCEPT !.replaced =
                         [healthCheckInterval |-> @.healthCheckInterval \/ healthCheckInterval,
                          reconnectTimeout |-> reconnectTimeout = "armed"]]
                 ELSE fcHist
  /\ lastOp' = Observed("setConnectionConfig",
                         IF serverUrl THEN "replaced" ELSE "kept", "none")
  /\ UNCHANGED <<cfg, fcCache, fcResult, now, fcPending, fcStale, fcLog>>
  /\ UNCHANGED <<thumbVars, requestVars, ga>>

\* the direct-only facade, one run-to-await segment at a time ----------------

\* the ways the GET of a pending request can end. The static datasets of
\* utils/mockData.ts are plain values of the response types, so the remote
\* API can hold a document with the very content of the one for p.op
ResponsesOf(p) ==
  {[kind |-> "ok", data |-> d, status |-> 200] : d \in Bodies}
  \cup (IF p.op \in DOMAIN mockData
          THEN {[kind |-> "ok", data |-> mockData[p.op], status |-> 200]}
          ELSE {})
  \cup {o \in DirectOutcomes : o.kind # "ok"}

\* a per-resource method is called on the direct-only facade: makeApiCall up
\* to the awaited axios.get of makeApiCallDirect
RequestStart(op) ==
  LET key == cacheKey(EndpointOf(op), ParamsOf(op))
      cached == getFromCache(fcCache["token"], key, now)
      noToken == perResource(op, makeApiCallDirect("", fcCache["token"], now,
                     EndpointOf(op), ParamsOf(op), CHOOSE o \in DirectOutcomes : TRUE))
  IN  /\ IF Truthy(cached)
           THEN /\ fcResult' = [fcResult EXCEPT !["token"] = Returned(cached, "cache")]
                /\ fcLog' = logResponse(Returned(cached, "cache"))
                /\ lastOp' = Observed(op, "cache", IF key \in fcStale THEN "stale" ELSE "fresh")
                /\ UNCHANGED fcPending
         ELSE IF fcToken = ""
           THEN /\ fcResult' = [fcResult EXCEPT !["token"] = noToken.result]
                /\ fcLog' = logResponse(noToken.result)
                /\ lastOp' = Observed(op, "miss", "noToken")
                /\ UNCHANGED fcPending
         ELSE /\ Cardinality(fcPending) < MaxPending
              /\ [op |-> op, stale |-> FALSE] \notin fcPending
              /\ fcPending' = fcPending \cup {[op |-> op, stale |-> FALSE]}
              /\ lastOp' = Observed(op, "miss", "sent")
              /\ UNCHANGED <<fcResult, fcLog>>
      /\ UNCHANGED <<cfg, status, reconnectAttempts, lastError, healthCheckInterval,
                     reconnectTimeout, reconnectDelay, inflight, tornDown, failures,
                     fcToken, fcCache, now, fcStale>>
      /\ FacadeOnly

\* the GET of a pending request ends: the rest of makeApiCallDirect and of the
\* per-resource method
RequestResume(p, o) ==
  /\ p \in fcPending
  /\ \E r \in {perResource(p.op, makeApiCallDirect(fcToken, fcCache["token"], now,
                    EndpointOf(p.op), ParamsOf(p.op), o))} :
       /\ fcResult' = [fcResult EXCEPT !["token"] = r.result]
       /\ fcLog' = logResponse(r.result)
       /\ fcCache' = [fcCache EXCEPT !["token"] = r.cache]
  /\ fcStale' = IF o.kind # "ok" THEN fcStale
                ELSE IF p.stale
                  THEN fcStale \cup {cacheKey(EndpointOf(p.op), ParamsOf(p.op))}
                  ELSE fcStale \ {cacheKey(EndpointOf(p.op), ParamsOf(p.op))}
  /\ fcPending' = fcPending \ {p}
  /\ lastOp' = Observed("response", o.kind, IF p.stale THEN "stale" ELSE "fresh")
  /\ UNCHANGED <<cfg, status, reconnectAttempts, lastError, healthCheckInterval,
                 reconnectTimeout, reconnectDelay, inflight, tornDown, failures,
                 fcToken, now>>
  /\ FacadeOnly

\* time passes
AdvanceClock ==
  /\ now < MaxClock * (cacheTimeout \div 2)
  /\ now' = now + cacheTimeout \div 2
  /\ lastOp' = Observed("clock", "none", "none")
  /\ UNCHANGED <<cfg, status, reconnectAttempts, lastError, healthCheckInterval,
                 reconnectTimeout, reconnectDelay, inflight, tornDown, failures,
                 fcToken, fcCache, fcResult, fcPending, fcStale, fcLog>>
  /\ FacadeOnly

\* getAllFigmaData on the direct-only facade --------------------------------

\* the sub-fetches in the order in which apiProgress declares its flags
subFetches_declared ==
  << [fetch |-> "getFile",           flag |-> "file"],
     [fetch |-> "getComments",       flag |-> "comments"],
     [fetch |-> "getVersions",       flag |-> "versions"],
     [fetch |-> "getFileComponents", flag |-> "components"],
     [fetch |-> "getFileStyles",     flag |-> "styles"],
     [fetch |-> "getUser",           flag |-> "user"] >>

\* the sub-fetches in the order of the statements that await them, each with
\* the apiProgress flag set after it
subFetches ==
  << [fetch |-> "getFile",           flag |-> "file"],
     [fetch |-> "getUser",           flag |-> "user"],
     [fetch |-> "getComments",       flag |-> "comments"],
     [fetch |-> "getVersions",       flag |-> "versions"],
     [fetch |-> "getFileComponents", flag |-> "components"],
     [fetch |-> "getFileStyles",     flag |-> "styles"] >>

\* the fileId arguments: '' and a file key
FileIds == {<<>>, <<"F">>}

\* before the first call; `data` holds data.file.info, data.user and the
\* four lists of data.file by the flag of their sub-fetch, a response being
\* identified with the list it carries; `failed` and `mocked` are history:
\* the sub-fetches whose makeApiCall threw, and those answered by the mock
NotCalled ==
  [pc |-> "idle", fileId |-> <<>>, progress |-> FALSE, apiProgress |-> {},
   cached |-> Null, issued |-> <<>>, settled |-> <<>>, reports |-> <<>>,
   failed |-> {}, mocked |-> {},
   data |-> [file |-> Null, user |-> Null, comments |-> "[]", versions |-> "[]",
             components |-> "[]", styles |-> "[]"]]

\* progress?.(apiProgress): the report is the set of flags that are true
report(g) ==
  IF g.progress THEN [g EXCEPT !.reports = Append(@, g.apiProgress)] ELSE g

\* sub-fetch number i is called: the per-resource method up to its await of
\* makeApiCall (with the cache lookup). On an empty file id getFile throws
\* before its try; it is the first sub-fetch and outside every inner try, so
\* the outer catch rethrows
callSubFetch(g, i) ==
  LET m == subFetches[i].fetch
      called == [g EXCEPT !.issued = Append(@, m)]
  IN  IF i = 1 /\ g.fileId = <<>>
        THEN [called EXCEPT !.pc = "rejected"]
        ELSE [called EXCEPT !.pc = "awaiting",
                !.cached = getFromCache(fcCache["token"],
                              cacheKey(Endpoint(m, g.fileId), NoParams), now)]

\* what the awaited makeApiCall can get: nothing is read on a cache hit or
\* without a token; else the GET ends with a typed body, an empty body or
\* an error (the responses of a request for which no static dataset exists)
AnswersOf(g) ==
  IF Truthy(g.cached) \/ fcToken = ""
    THEN {CHOOSE o \in DirectOutcomes : TRUE}
    ELSE ResponsesOf([op |-> "getAllFigmaData"])

\* after sub-fetch number i: the flag, the report, and the next sub-fetch or
\* organizeData and the return
afterSubFetch(g, i) ==
  LET flagged == report([g EXCEPT !.apiProgress = @ \cup {subFetches[i].flag}])
  IN  IF i = Len(subFetches)
        THEN [flagged EXCEPT !.pc = "resolved"]
        ELSE callSubFetch(flagged, i + 1)

\* getAllFigmaData(fileId, progress) up to its first await
getAllFigmaData(fileId, progress) ==
  /\ ga.pc \in {"idle", "resolved", "rejected"}
  /\ ga' = callSubFetch([NotCalled EXCEPT !.fileId = fileId, !.progress = progress], 1)
  /\ lastOp' = Observed("getAllFigmaData", "called", "none")
  /\ UNCHANGED <<cfg, status, reconnectAttempts, lastError, healthCheckInterval,
                 reconnectTimeout, reconnectDelay, inflight, tornDown, failures,
                 fcToken, fcCache, fcResult, now, fcPending, fcStale, fcLog, fcHist>>
  /\ UNCHANGED <<thumbVars, requestVars>>

\* the awaited makeApiCall of the current sub-fetch ends: the rest of the
\* per-resource method, then getAllFigmaData up to its next await or its end
SubFetchSettles ==
  /\ ga.pc = "awaiting"
  /\ \E o \in AnswersOf(ga) :
       LET i == Len(ga.issued)
           m == subFetches[i].fetch
           call == IF Truthy(ga.cached)
                     THEN [result |-> Returned(ga.cached, "cache"),
                           cache |-> fcCache["token"]]
                     ELSE makeApiCallDirect(fcToken, fcCache["token"], now,
                                            Endpoint(m, ga.fileId), NoParams, o)
       IN  \E r \in {perResource(m, call)} :
             LET settled == [ga EXCEPT !.settled = Append(@, m),
                               !.failed = IF call.result.kind = "error" THEN @ \cup {m} ELSE @,
                               !.mocked = IF r.result.by = "mock" THEN @ \cup {m} ELSE @,
                               !.data[subFetches[i].flag] =
                                  IF r.result.kind = "error" THEN @ ELSE r.result.data]
             IN  /\ fcCache' = [fcCache EXCEPT !["token"] = r.cache]
                 /\ fcLog' = logResponse(r.result)
                 /\ lastOp' = Observed(m, r.result.kind, r.result.by)
                 /\ ga' = IF r.result.kind = "error" /\ i = 1
                            THEN [settled EXCEPT !.pc = "rejected"]
                            ELSE afterSubFetch(settled, i)
  /\ UNCHANGED <<cfg, status, reconnectAttempts, lastError, healthCheckInterval,
                 reconnectTimeout, reconnectDelay, inflight, tornDown, failures,
                 fcToken, fcResult, now, fcPending, fcStale, fcHist>>
  /\ UNCHANGED <<thumbVars, requestVars>>

\* the history of a facade that made no request and replaced no client
NoHistory ==
  [calls |-> [broker |-> 0, direct |-> 0], owner |-> <<>>,
   replaced |-> [healthCheckInterval |-> FALSE, reconnectTimeout |-> FALSE]]

FacadeIdle ==
  /\ fcToken = ""
  /\ fcCache = [f \in Facades |-> <<>>]
  /\ fcResult = [f \in Facades |-> NoResult]
  /\ now = 0
  /\ fcPending = {}
  /\ fcStale = {}
  /\ fcLog = logResponse(Thrown("", ""))
  /\ ga = NotCalled
  /\ fcHist = NoHistory

FacadeInit ==
  /\ fcToken \in Tokens
  /\ fcCache = [f \in Facades |-> <<>>]
  /\ fcResult = [f \in Facades |-> NoResult]
  /\ now = 0
  /\ fcPending = {}
  /\ fcStale = {}
  /\ fcLog = logResponse(Thrown("", ""))
  /\ ga = NotCalled
  /\ fcHist = NoHistory

----------------------------------------------------------------------------
(* What a request computes from (endpoint, params) before any transport    *)

IdChars == {"a", "7"}

\* the ids of at most MaxIdLen characters
Ids == UNION {[1..n -> IdChars] : n \in 1..MaxIdLen}

\* the entries a params object is built from
ParamEntries == {<<"a", "1">>, <<"b", "2">>}

\* the objects over ParamEntries: every order of insertion of every subset
ParamObjects ==
  {Object(es) : es \in {q \in UNION {[1..n -> ParamEntries] : n \in 0..2} :
                          \A i, j \in 1..Len(q) : i # j => q[i] # q[j]}}

\* getPageThumbnails and getPageNodes pass a params object, the other
\* methods pass none
ParamsFor(resource) ==
  IF resource \in {"getPageThumbnails", "getPageNodes"} THEN ParamObjects ELSE {NoParams}

\* the key/value pairs of a params object, whatever the order of insertion
Pairs(params) == {params.entries[i] : i \in 1..Len(params.entries)}

RequestOnly == UNCHANGED <<clientVars, thumbVars, facadeVars>>

\* the constructor's choice of transport --------------------------------------

\* the environment signals: process.env.NODE_ENV, REACT_APP_NETLIFY and
\* REACT_APP_MCP_ENABLED ("undefined" when unset), window.location.hostname
Environments ==
  [NODE_ENV : {"production", "development", "test", "undefined"},
   REACT_APP_NETLIFY : {"true", "false", "undefined"},
   REACT_APP_MCP_ENABLED : {"true", "false", "undefined"},
   hostname : {Text("localhost"), Text("127.0.0.1"), Text("x.netlify.app"),
               Text("example.com"), <<>>}]

\* (mutant) a detection that does not read REACT_APP_MCP_ENABLED
detectEnvironmentMethod_ignoresFlag(e) ==
  LET isProduction == e.NODE_ENV = "production"
      isNetlify == e.REACT_APP_NETLIFY = "true" \/ Includes(e.hostname, Text("netlify.app"))
      isLocalhost == e.hostname = Text("localhost") \/ e.hostname = Text("127.0.0.1")
  IN  IF isProduction \/ isNetlify \/ ~isLocalhost THEN "token" ELSE "mcp"

\* detectEnvironmentMethod
detectEnvironmentMethod(e) ==
  LET isProduction == e.NODE_ENV = "production"
      isNetlify == e.REACT_APP_NETLIFY = "true" \/ Includes(e.hostname, Text("netlify.app"))
      isLocalhost == e.hostname = Text("localhost") \/ e.hostname = Text("127.0.0.1")
  IN  IF isProduction \/ isNetlify \/ ~isLocalhost THEN "token"
      ELSE IF e.REACT_APP_MCP_ENABLED = "false" THEN "token"
      ELSE "mcp"

\* the field initializer `connectionConfig = { method: 'token' }`, in no
\* environment yet
NotConstructed ==
  [signals |-> [NODE_ENV |-> "undefined", REACT_APP_NETLIFY |-> "undefined",
                REACT_APP_MCP_ENABLED |-> "undefined", hostname |-> <<>>],
   constructed |-> FALSE, method |-> "token", connects |-> FALSE]

\* setupMcpClient(), by whether it calls tryMcpConnection() and with it
\* connect() on the client it created: it reads connectionConfig.method
setupMcpClient(method) == method = "mcp"

\* new ComprehensiveFigmaApiService() in the environment e: the field
\* initializer, then setupMcpClient(), then the detection of the method
Construct(e) ==
  /\ env' = [signals |-> e, constructed |-> TRUE,
             connects |-> setupMcpClient(NotConstructed.method),
             method |-> detectEnvironmentMethod(e)]
  /\ UNCHANGED <<rqEndpoint, rqParams, rqTool, rqKey, tc>>
  /\ RequestOnly

\* callTool by what it logs and returns ---------------------------------------

\* the JSON values the broker answers with: numbers (by their digits),
\* strings, arrays of numbers, objects with number values (an object by its
\* keys and values in turn)
JsonValues ==
  {[type |-> "number", v |-> d] : d \in {<<"7">>, <<"7", "7">>}}
  \cup {[type |-> "string", v |-> c] : c \in {<<>>} \cup SeqsUpTo({"a", "7"}, MaxIdLen)}
  \cup {[type |-> "array", v |-> a] : a \in {<<>>, <<"7">>, <<"7", "77">>}}
  \cup {[type |-> "object", v |-> e] : e \in {<<>>, <<"a", "7">>}}

\* JSON.stringify of a JSON value, as characters
JSONtext(value) ==
  LET RECURSIVE joined(_)
      joined(a) == IF a = <<>> THEN <<>>
                   ELSE IF Len(a) = 1 THEN <<a[1]>>
                   ELSE <<a[1], ",">> \o joined(Tail(a))
  IN  CASE value.type = "number" -> value.v
        [] value.type = "string" -> <<"\"">> \o value.v \o <<"\"">>
        [] value.type = "array"  -> <<"[">> \o joined(value.v) \o <<"]">>
        [] value.type = "object" ->
             JSONstringify(Object([k \in 1..(Len(value.v) \div 2) |->
                                     <<value.v[2 * k - 1], value.v[2 * k]>>]))

\* JSON.parse, on the texts of JsonValues: the value whose text it is, or a
\* SyntaxError
JSONparse(text) ==
  IF \E value \in JsonValues : JSONtext(value) = text
    THEN CHOOSE value \in JsonValues : JSONtext(value) = text
    ELSE [type |-> "SyntaxError", v |-> <<>>]

\* the McpToolResponse callTool builds from the parsed body `result`
toolResponse(result) ==
  [content |-> << [type |-> "text",
                   text |-> IF result.type = "string" THEN result.v
                                                      ELSE JSONtext(result)] >>,
   isError |-> FALSE]

\* this.log(level, message, data): the lines with the one it emits, if
\* levels[level] >= levels[logLevel]; data is the values console prints
log(lines, logLevel, level, message, data) ==
  LET levels == [debug |-> 0, info |-> 1, warn |-> 2, error |-> 3]
  IN  IF levels[level] >= levels[logLevel]
        THEN lines \cup {[level |-> level, message |-> message, data |-> data]}
        ELSE lines

NoToolCall ==
  [pc |-> "idle", logLevel |-> "info", token |-> "", lines |-> {},
   result |-> [type |-> "none", v |-> <<>>],
   response |-> [content |-> <<>>, isError |-> FALSE], message |-> <<>>]

\* callTool(toolName, {file_id, token}) of a connected client whose
\* config.logLevel is logLevel, up to the awaited fetch
ToolCall(logLevel, token) ==
  /\ tc.pc # "awaiting"
  /\ tc' = [NoToolCall EXCEPT !.pc = "awaiting", !.logLevel = logLevel, !.token = token,
              !.lines = log({}, logLevel, "debug", "Calling MCP tool", <<"F", token>>)]
  /\ UNCHANGED <<rqEndpoint, rqParams, rqTool, rqKey, env>>
  /\ RequestOnly

\* the fetch of callTool ends as o, a 2xx response carrying the JSON value
\* `result`: the rest of callTool, as far as its log lines, its response and
\* the error it throws go
ToolCallEnds(o, result) ==
  /\ tc.pc = "awaiting"
  /\ tc' = IF o.cause = "ok"
             THEN [tc EXCEPT !.pc = "resolved", !.result = result,
                     !.lines = log(@, tc.logLevel, "debug", "MCP tool call successful", <<>>),
                     !.response = toolResponse(result)]
             ELSE [tc EXCEPT !.pc = "rejected",
                     !.lines = log(@, tc.logLevel, "error", "MCP tool call failed", <<"error">>),
                     !.message = Text("MCP tool call failed: ") \o o.message]
  /\ UNCHANGED <<rqEndpoint, rqParams, rqTool, rqKey, env>>
  /\ RequestOnly

RequestIdle ==
  /\ rqEndpoint = <<>>
  /\ rqParams = NoParams
  /\ rqTool = "none"
  /\ rqKey = <<>>
  /\ env = NotConstructed
  /\ tc = NoToolCall

\* a per-resource method calls makeApiCall(endpoint, params): the cache key
\* of makeApiCall and the tool name of makeApiCallViaMcp
PrepareRequest(resource, id, params) ==
  /\ rqEndpoint' = Endpoint(resource, id)
  /\ rqParams' = params
  /\ rqKey' = cacheKey(Endpoint(resource, id), params)
  /\ rqTool' = getToolNameForEndpoint(Endpoint(resource, id))
  /\ UNCHANGED <<env, tc>>
  /\ RequestOnly

----------------------------------------------------------------------------
(* Specifications *)

Init == ClientInit /\ ThumbIdle /\ FacadeIdle /\ RequestIdle

Next ==
  \/ Connect
  \/ \E origin \in {"connectCaller", "connectTimer"}, healthy \in BOOLEAN :
       ConnectResume(origin, healthy)
  \/ ReconnectTimerFires
  \/ HealthCheckTick
  \/ \E healthy \in BOOLEAN : HealthCheckResume(healthy)
  \/ Disconnect
  \/ CallTool
  \/ \E o \in ToolOutcomes : CallToolResume(o)
  \/ ListTools

\* the broker client under every sequence of calls, timer firings and responses
Spec == Init /\ [][Next]_vars

InitThumb == ClientIdle /\ ThumbInit /\ FacadeIdle /\ RequestIdle

NextThumb ==
  \/ GetThumbnails
  \/ SendImageRequest
  \/ \E o \in ImageOutcomes(thPending) : ReceiveBatch(o)
  \/ \E o \in ImageOutcomes(thPending) : ReceiveIndividual(o)

\* one thumbnail fetch under every sequence of remote outcomes
SpecThumb == InitThumb /\ [][NextThumb]_vars

InitFallback == ClientIdle /\ ThumbIdle /\ FacadeInit /\ RequestIdle

NextFallback ==
  \/ \E op \in FacadeOps : FacadeCall(op)
  \/ FacadeDisconnect
  \/ Connect
  \/ \E origin \in {"connectCaller", "connectTimer"}, healthy \in BOOLEAN :
       ConnectResume(origin, healthy)
  \/ ReconnectTimerFires
  \/ HealthCheckTick
  \/ \E healthy \in BOOLEAN : HealthCheckResume(healthy)

\* a facade configured for a broker that fails every call, beside a facade
\* configured direct-only, both given the same calls and remote responses
SpecFallback == InitFallback /\ [][NextFallback]_vars

NextFacade ==
  \/ \E op \in FacadeOps : RequestStart(op)
  \/ \E p \in fcPending : \E o \in ResponsesOf(p) : RequestResume(p, o)
  \/ FacadeDisconnect
  \/ AdvanceClock

\* the direct-only facade with its requests in flight, its cache and the clock
SpecFacade == InitFallback /\ [][NextFacade]_vars

InitRequest == ClientIdle /\ ThumbIdle /\ FacadeIdle /\ RequestIdle

NextPrepare ==
  \E resource \in Resources, id \in Ids : \E params \in ParamsFor(resource) :
    PrepareRequest(resource, id, params)

\* the requests of the per-resource methods, for every id and params
SpecRequest == InitRequest /\ [][NextPrepare]_vars

NextDetect == \E e \in Environments : Construct(e)

\* the facade constructed in every environment
SpecDetect == InitRequest /\ [][NextDetect]_vars

LogLevels == {"debug", "info", "warn", "error"}

NextTool ==
  \/ \E logLevel \in LogLevels, token \in Tokens : ToolCall(logLevel, token)
  \/ \E o \in ToolOutcomes :
       \E result \in IF o.cause = "ok" THEN JsonValues ELSE {tc.result} :
         ToolCallEnds(o, result)

\* callTool for every log level, token and answer of the broker
SpecTool == InitRequest /\ [][NextTool]_vars

\* the calls a user of the client makes
ExternalCall == Connect \/ Disconnect \/ CallTool \/ ListTools

InitGiveUp == Init /\ cfg.enableReconnect

NextGiveUp ==
  \/ Connect
  \/ Disconnect
  \/ CallTool
  \/ ListTools
  \/ \E origin \in {"connectCaller", "connectTimer"} : ConnectResume(origin, FALSE)
  \/ ReconnectTimerFires

\* the client with reconnect enabled and a broker whose health check always
\* fails: an armed timer fires (setTimeout) and an awaited health check
\* returns (AbortSignal.timeout bounds it)
SpecGiveUp ==
  /\ InitGiveUp
  /\ [][NextGiveUp]_vars
  /\ WF_vars(ReconnectTimerFires)
  /\ WF_vars(\E origin \in {"connectCaller", "connectTimer"} :
               ConnectResume(origin, FALSE))

NextAll ==
  \/ \E fileId \in FileIds, progress \in BOOLEAN : getAllFigmaData(fileId, progress)
  \/ SubFetchSettles

SpecAll == InitFallback /\ [][NextAll]_vars

NextConfig ==
  \/ Request("getFile")
  \/ \E token \in ConfigTokens, serverUrl \in BOOLEAN : SetConnectionConfig(token, serverUrl)
  \/ \E origin \in {"connectCaller", "connectTimer"}, healthy \in BOOLEAN :
       ConnectResume(origin, healthy)
  \/ FacadeDisconnect

\* the facade configured for the broker under setConnectionConfig with every
\* token, with and without a serverUrl, and the connects of its broker client
SpecConfig == InitFallback /\ [][NextConfig]_vars

NextCalls ==
  \/ \E op \in RequestOps : Request(op)
  \/ SetConnectionConfig(fcToken, FALSE)
  \/ \E origin \in {"connectCaller", "connectTimer"}, healthy \in BOOLEAN :
       ConnectResume(origin, healthy)
  \/ FacadeDisconnect

\* the requests of the facade configured for the broker, with every answer
\* of the broker and of the remote API, its token and client unchanged
SpecCalls == InitFallback /\ [][NextCalls]_vars

----------------------------------------------------------------------------
(* Claims about FigmaMcpClient, checked under Spec *)

\* C3: teardown is final. After disconnect() returned and until connect() is
\* next called, the status is `disconnected` and neither the health-check
\* interval nor a reconnect timer is pending, whatever was in flight when
\* disconnect() was called.
C3_TeardownIsFinal ==
  tornDown =>
    /\ status = "disconnected"
    /\ ~healthCheckInterval
    /\ reconnectTimeout # "armed"

\* C4: reconnect backoff. With reconnect enabled, the timer armed by the n-th
\* consecutive health-check or tool-call failure since the last successful
\* connect has the delay retryDelay * 2^(n-1) (1000, 2000, 4000 ms for
\* retryDelay = 1000), under any interleaving of the calls in flight.
C4_ReconnectBackoff ==
  (cfg.enableReconnect /\ lastOp.delay > 0)
    => lastOp.delay = cfg.retryDelay * Pow2(lastOp.n - 1)

\* C5: reconnect bound. With reconnect enabled, for every configured
\* retryAttempts (0 included) no more than retryAttempts reconnects are
\* scheduled since the counter was last reset, and no failure found with
\* reconnectAttempts >= retryAttempts schedules another.
C5_ReconnectBound ==
  cfg.enableReconnect =>
    /\ reconnectAttempts <= cfg.retryAttempts
    /\ lastOp.delay > 0 => lastOp.att < cfg.retryAttempts

\* C6: whenever a callTool issued while connected fails by a network failure,
\* a timeout or a 5xx response, the connection has left `connected` (through
\* `error`, into the reconnect path) when the caller sees the wrapped error.
C6_ToolFailureLeavesConnected ==
  (lastOp.op = "callToolDone" /\ lastOp.result = "rejected"
     /\ lastOp.cause \in ConnectionFailures)
    => status \in {"error", "reconnecting"}

\* C7: whenever a periodic health check fails while the status is
\* `connected`, the status becomes `error`, then `reconnecting` if attempts
\* remain, in every configuration of the client.
C7_HealthFailureLeavesConnected ==
  (lastOp.op = "healthCheck" /\ lastOp.result = "unhealthy" /\ lastOp.st = "connected")
    => /\ status \in {"error", "reconnecting"}
       /\ lastOp.att < cfg.retryAttempts => status = "reconnecting"

\* C8: in every state other than `connected`, callTool and listTools reject
\* with a not-connected error (callTool's names the status it found), issue
\* no HTTP request and leave the connection state unchanged.
C8_NotConnectedRejects ==
  [][ (lastOp'.op \in {"callTool", "listTools"} /\ status # "connected")
        => /\ lastOp'.result = "notConnected"
           /\ lastOp'.st = status
           /\ Client' = Client
           /\ inflight' = inflight ]_vars

C8_Witness ==
  /\ lastOp.op = "callTool" /\ lastOp.result = "notConnected"
  /\ lastOp.st = "reconnecting" /\ status = "reconnecting"

\* C9: connect() is a no-op while the status is `connected` or `connecting`:
\* no health-check request, no timer, and status, reconnectAttempts and
\* lastError unchanged.
C9_ConnectIsIdempotent ==
  [][ (lastOp'.op = "connect" /\ status \in {"connected", "connecting"})
        => /\ lastOp'.result = "noop"
           /\ Client' = Client
           /\ inflight' = inflight ]_vars

C9_Witness ==
  /\ lastOp.op = "connect" /\ lastOp.result = "noop"
  /\ lastOp.st = "connecting" /\ inflight.connectTimer = 1

\* C10: from every state disconnect() leaves status = `disconnected` and
\* reconnectAttempts = 0 with no timer, and a second disconnect() right after
\* it leaves the state as the first left it.
C10_DisconnectIsIdempotent ==
  lastOp.op = "disconnect" =>
    /\ status = "disconnected"
    /\ reconnectAttempts = 0
    /\ ~healthCheckInterval /\ reconnectTimeout = "null"
    /\ disconnect(Client) = Client

C10_Witness ==
  /\ lastOp.op = "disconnect" /\ lastOp.st = "reconnecting"
  /\ lastOp.att > 0 /\ lastError = "lost"

----------------------------------------------------------------------------
(* Claims about the thumbnail fetch, checked under SpecThumb *)

\* C1: thumbnail partition. On return every distinct input id is a key of
\* exactly one of result.images / result.errors, and the keys of the two
\* together are the distinct input ids.
C1_ThumbnailPartition ==
  thPc = "done" =>
    /\ DOMAIN thImages \cap DOMAIN thErrors = {}
    /\ DOMAIN thImages \cup DOMAIN thErrors = Range(thInput)

\* C15: the `retried` set. When the fetch has returned, every id that entered
\* a retry round (the batch-level retry of missing ids, or the per-id requests
\* after a thrown batch) is in result.retried exactly once, and an id that
\* never entered one is not in it.
C15_RetriedExactlyOnce ==
  thPc = "done" =>
    \A id \in Range(thInput) :
      Cardinality({k \in 1..Len(thRetried) : thRetried[k] = id})
        = IF id \in thHist.entered THEN 1 ELSE 0

\* C16: the retry bound. At most maxRetries + 1 = 3 requests carry an id, the
\* fetch goes on until it has returned, and an id that was requested 3 times
\* and whose last response still lacked its URL is in errors with `Failed to
\* generate thumbnail after 3 attempts`.
C16_RetryBound ==
  /\ \A id \in DOMAIN thHist.requests : thHist.requests[id] <= maxRetries + 1
  /\ thPc = "running" => ENABLED (SendImageRequest
                                  \/ (\E o \in ImageOutcomes(thPending) : ReceiveBatch(o))
                                  \/ (\E o \in ImageOutcomes(thPending) : ReceiveIndividual(o)))
  /\ thPc = "done" =>
       \A id \in thHist.missing :
         thHist.requests[id] = maxRetries + 1
           => (id \in DOMAIN thErrors /\ thErrors[id] = FailedAfter)

\* C17: every id of an outbound image request is well-formed (only characters
\* of [a-zA-Z0-9:-], a ':' among them, more than 2 characters); every
\* malformed input id is in errors with `Invalid node ID format: <id>` and is
\* carried by no request; with no well-formed input id no request is issued.
C17_OnlyWellFormedIdsAreSent ==
  LET wellFormed(id) == /\ Len(id) > 2
                        /\ \E k \in 1..Len(id) : id[k] = ":"
                        /\ \A k \in 1..Len(id) : id[k] \in NodeIdChars
  IN  /\ \A k \in 1..Len(thPending) : wellFormed(thPending[k])
      /\ thPc # "idle" =>
           \A id \in Range(thInput) :
             ~wellFormed(id) => /\ id \in DOMAIN thErrors
                                /\ thErrors[id] = InvalidFormat(id)
                                /\ thHist.requests[id] = 0
      /\ (\A id \in Range(thInput) : ~wellFormed(id)) => thPending = <<>>

C17_Witness ==
  /\ thPending # <<>>
  /\ {Id_bad, Id_1cu} \subseteq Range(thInput)
  /\ {Id_bad, Id_1cu} \subseteq DOMAIN thErrors

\* C18: with a token, a file id and a non-empty id list the fetch never
\* rejects, whatever the remote outcomes; when it has returned, every failure
\* is an entry of result.errors: each input id has a URL or an error.
C18_NeverRejects ==
  /\ thPc # "rejected"
  /\ thPc = "done" => Range(thInput) \subseteq DOMAIN thImages \cup DOMAIN thErrors

C18_Witness ==
  /\ thPc = "done"
  /\ thHist.entered # {}
  /\ \E id, id2 \in DOMAIN thErrors :
       /\ thErrors[id] = <<"Request error">>
       /\ thErrors[id2] = <<"HTTP", 404>>

----------------------------------------------------------------------------
(* Claims about the facade, checked under SpecFallback *)

\* C2: fallback transparency. With the broker failing in any way (not
\* connected, tool call rejecting, malformed or error-bearing response) the
\* facade configured for the broker returns what the direct-only facade
\* returns for the same token and remote responses, and no error of the
\* broker reaches the caller.
C2_FallbackTransparency ==
  /\ fcResult["mcp"] = fcResult["token"]
  /\ \A f \in Facades : fcResult[f].kind = "error" => fcResult[f].by = "direct"

C2_Witness ==
  /\ lastOp.op = "getTeamProjects" /\ lastOp.cause = "toolRejected"
  /\ fcResult["mcp"].kind = "data" /\ fcResult["mcp"].by = "direct"
  /\ fcResult["token"] = fcResult["mcp"]

----------------------------------------------------------------------------
(* Claims about a request's tool and cache key, checked under SpecRequest *)

\* C11: endpoint-to-tool mapping. For every file id F the tool is get_file for
\* /files/F, get_comments for /files/F/comments, get_versions for
\* /files/F/versions, get_components for /files/F/components, get_styles for
\* /files/F/styles, get_nodes for /files/F/nodes, get_images for /images/F and
\* get_user for /me.
C11_EndpointToolMapping ==
  \A id \in Ids :
    /\ rqEndpoint = Text("/files/") \o id                 => rqTool = "get_file"
    /\ rqEndpoint = Text("/files/") \o id \o Text("/comments")   => rqTool = "get_comments"
    /\ rqEndpoint = Text("/files/") \o id \o Text("/versions")   => rqTool = "get_versions"
    /\ rqEndpoint = Text("/files/") \o id \o Text("/components") => rqTool = "get_components"
    /\ rqEndpoint = Text("/files/") \o id \o Text("/styles")     => rqTool = "get_styles"
    /\ rqEndpoint = Text("/files/") \o id \o Text("/nodes")      => rqTool = "get_nodes"
    /\ rqEndpoint = Text("/images/") \o id                => rqTool = "get_images"
    /\ rqEndpoint = Text("/me")                          => rqTool = "get_user"

\* C13: fingerprint stability. For the same endpoint, two params objects with
\* the same key/value pairs, in whatever order they were inserted, have the
\* same cache key (and so has the same params object computed again).
C13_FingerprintStability ==
  [][ ( /\ rqEndpoint' = rqEndpoint
        /\ rqParams'.defined = rqParams.defined
        /\ Pairs(rqParams') = Pairs(rqParams) )
      => rqKey' = rqKey ]_vars

----------------------------------------------------------------------------
(* Claims about the facade's cache, checked under SpecFacade *)

\* C12: cache TTL. A request for a fingerprint whose value was stored at time
\* T is answered from the cache, with that value, when now - T < cacheTimeout,
\* and is a miss when now - T >= cacheTimeout.
C12_CacheTTL ==
  [][ \A op \in FacadeOps :
        LET key == cacheKey(EndpointOf(op), ParamsOf(op))
        IN  (lastOp'.op = op /\ key \in DOMAIN fcCache["token"])
            => IF now - fcCache["token"][key].timestamp < cacheTimeout
                 THEN /\ lastOp'.result = "cache"
                      /\ fcResult'["token"] = Returned(fcCache["token"][key].data, "cache")
                 ELSE lastOp'.result = "miss" ]_vars

\* C14: once disconnect() has resolved, the cache holds nothing that was
\* fetched by a request sent before the disconnect, and no request is
\* answered from such data.
C14_NoStaleDataAfterDisconnect ==
  /\ fcStale = {}
  /\ ~(lastOp.result = "cache" /\ lastOp.cause = "stale")

C20_SequentialFixedOrder ==
  /\ [](LET order == <<"getFile", "getUser", "getComments", "getVersions",
                       "getFileComponents", "getFileStyles">>
            flags == <<"file", "user", "comments", "versions", "components", "styles">>
            isPrefix(a, b) == Len(a) <= Len(b) /\ a = SubSeq(b, 1, Len(a))
        IN  /\ isPrefix(ga.issued, order)
            /\ isPrefix(ga.settled, ga.issued)
            /\ Len(ga.issued) <= Len(ga.settled) + 1
            /\ \A i \in 1..Len(ga.reports) :
                 \E k \in 0..Len(flags) : ga.reports[i] = {flags[j] : j \in 1..k}
            /\ \A i \in 1..(Len(ga.reports) - 1) :
                 ga.reports[i] \subseteq ga.reports[i + 1]
            /\ ga.reports # <<>> => ga.reports[Len(ga.reports)] \subseteq ga.apiProgress)
  /\ [][ga.issued # <<>> /\ Len(ga.issued) <= Len(ga'.issued)
           => ga.apiProgress \subseteq ga'.apiProgress]_vars

\* a call resolved after six reports, with the comments served by the mock
\* and the other five by the remote API or the cache
C20_Witness ==
  /\ ga.pc = "resolved"
  /\ ga.progress
  /\ Len(ga.reports) = 6
  /\ Len(ga.settled) = 6
  /\ ga.mocked = {"getComments"}

\* C21: when getAllFigmaData with a non-empty file id has resolved and the
\* comments fetch was the only one whose every transport failed, the comments
\* list of the result is empty and all six progress flags are true; and with
\* no failure other than that of the comments the call does not reject.
C21_CommentsFailureLeavesEmptyList ==
  /\ ga.fileId # <<>> /\ ga.failed \subseteq {"getComments"} => ga.pc # "rejected"
  /\ ga.pc = "resolved" /\ ga.failed = {"getComments"} =>
       /\ ga.data.comments = "[]"
       /\ ga.apiProgress = {"file", "user", "comments", "versions", "components", "styles"}

\* C22: a value that a per-resource method returns as its mock substitution
\* can be told from every value a transport can deliver for a request.
C22_MockResultCarriesMarker ==
  fcResult["token"].by = "mock" =>
    \A op \in FacadeOps : \A o \in ResponsesOf([op |-> op]) :
      o.kind = "ok" => o.data # fcResult["token"].data

\* C23: no entry that a per-resource method logs for a mock substitution
\* records success = true.
C23_MockIsNotLoggedAsSuccess ==
  fcLog.type = "response" /\ fcLog.isMock => ~fcLog.success

\* C24: the token given to callTool is in no line the client logs, at any
\* log level, and not in the message of the error callTool throws.
C24_TokenNeverLogged ==
  tc.token # "" =>
    /\ \A line \in tc.lines : tc.token \notin Range(line.data)
    /\ tc.token \notin Range(tc.message)

\* C25: when the broker answers 2xx with a JSON value, callTool resolves
\* with isError = false and exactly one content item, of type text, whose
\* text parses as JSON to the value the broker returned.
C25_CallToolRoundTrip ==
  tc.pc = "resolved" =>
    /\ tc.response.isError = FALSE
    /\ Len(tc.response.content) = 1
    /\ tc.response.content[1].type = "text"
    /\ JSONparse(tc.response.content[1].text) = tc.result

\* C26: when the health check awaited by a connect() fails and no reconnect
\* is permitted (enableReconnect = false, or reconnectAttempts >=
\* retryAttempts), that connect() rejects, the status is `error`, lastError
\* is set and no reconnect timer is pending.
C26_ConnectFailureRejects ==
  [][ /\ lastOp'.op \in {"connectCaller", "connectTimer"}
      /\ lastOp'.cause = "unhealthy"
      /\ (~cfg.enableReconnect \/ reconnectAttempts >= cfg.retryAttempts)
      => /\ lastOp'.result = "rejected"
         /\ status' = "error"
         /\ lastError' # "none"
         /\ reconnectTimeout' # "armed" ]_vars

\* C27: the method a constructed facade starts with is the broker exactly
\* when the host is localhost or 127.0.0.1, NODE_ENV is not production, no
\* Netlify signal is present (REACT_APP_NETLIFY = 'true', or a netlify.app
\* host) and REACT_APP_MCP_ENABLED is not 'false'; in every other
\* environment it is the direct transport.
C27_TransportDetection ==
  env.constructed =>
    LET e == env.signals
        broker == /\ e.hostname \in {Text("localhost"), Text("127.0.0.1")}
                  /\ e.NODE_ENV # "production"
                  /\ e.REACT_APP_NETLIFY # "true"
                  /\ ~Includes(e.hostname, Text("netlify.app"))
                  /\ e.REACT_APP_MCP_ENABLED # "false"
    IN  env.method = IF broker THEN "mcp" ELSE "token"

\* a facade constructed on 127.0.0.1 in development with the broker
\* explicitly disabled
C27_Witness ==
  /\ env.constructed
  /\ env.signals.hostname = Text("127.0.0.1")
  /\ env.signals.NODE_ENV = "development"
  /\ env.signals.REACT_APP_NETLIFY # "true"
  /\ env.signals.REACT_APP_MCP_ENABLED = "false"
  /\ env.method = "token"

----------------------------------------------------------------------------
\* a step in which the response of the request of a call of kind `call` arrives
ResponseStep(call) ==
  /\ thPending # <<>>
  /\ thPending' = <<>>
  /\ thHist'.last.call = call

\* C28: when a batch request throws, then with retries left (retryCount < 2)
\* and a retryable error (ECONNRESET, ETIMEDOUT, status >= 500 or 429) nothing
\* is recorded for the batch yet and a per-id pass over exactly the ids of the
\* batch starts, which asks one id per request, in order, and records each id
\* in images or errors; otherwise every id of the batch gets the formatted
\* reason in errors and no retry is started; in both cases the loop of the
\* calling batch pass moves on to its next batch
C28_ThrownBatchFallsBackPerId ==
  [][ /\ (ResponseStep("batch") /\ thHist'.last.kind = "thrown") =>
           LET f == thStack[Len(thStack)]
               e == thHist'.last.error
           IN  IF f.retryCount < 2
                  /\ (e.code \in {"ECONNRESET", "ETIMEDOUT"}
                        \/ e.response >= 500 \/ e.response = 429)
                 THEN /\ thPc' = "running"
                      /\ thStack' = thStack \o
                           <<[kind |-> "individual", nodeIds |-> thPending, i |-> 1,
                              retryCount |-> f.retryCount + 1]>>
                      /\ UNCHANGED <<thImages, thErrors, thRetried>>
                 ELSE /\ \A id \in Range(thPending) :
                           /\ id \in DOMAIN thErrors'
                           /\ thErrors'[id] = getErrorMessage(e)
                      /\ thHist'.entered = thHist.entered
                      /\ UNCHANGED <<thImages, thRetried>>
                      /\ IF f.i + batchSize <= Len(f.nodeIds)
                           THEN /\ thPc' = "running"
                                /\ thStack' = [thStack EXCEPT ![Len(thStack)].i =
                                                 f.i + batchSize]
                           ELSE Len(thStack') < Len(thStack)
      /\ ResponseStep("individual") =>
           LET f == thStack[Len(thStack)]
               g == thStack[Len(thStack) - 1]
           IN  /\ thPending = <<f.nodeIds[f.i]>>
               /\ thPending[1] \in DOMAIN thImages' \cup DOMAIN thErrors'
               /\ \A id \in (DOMAIN thImages \cup DOMAIN thErrors) \ {thPending[1]} :
                    /\ id \in DOMAIN thImages => thImages'[id] = thImages[id]
                    /\ id \in DOMAIN thErrors => thErrors'[id] = thErrors[id]
               /\ IF f.i < Len(f.nodeIds)
                    THEN thStack' = [thStack EXCEPT ![Len(thStack)].i = f.i + 1]
                    ELSE IF g.i + batchSize <= Len(g.nodeIds)
                      THEN /\ thPc' = "running"
                           /\ thStack' = SubSeq(thStack, 1, Len(thStack) - 2)
                                           \o <<[g EXCEPT !.i = g.i + batchSize]>>
                      ELSE Len(thStack') < Len(thStack) - 1
    ]_vars

\* both cases happened in one fetch of two batches: the first batch threw a
\* retryable error and its ids went through the per-id pass, the second batch
\* threw an error that is not retryable and its id holds the formatted reason
C28_Witness ==
  /\ thPc = "done"
  /\ Len(thInput) > batchSize
  /\ thHist.last.kind = "thrown"
  /\ thHist.last.call = "batch"
  /\ ~isRetryableError(thHist.last.error)
  /\ thInput[1] \in thHist.entered
  /\ thInput[1] # thInput[Len(thInput)]
  /\ thHist.requests[thInput[1]] = 2
  /\ thErrors[thInput[Len(thInput)]] = getErrorMessage(thHist.last.error)

\* C29: when the response of a batch request carries a structured error
\* (data.err), every id of the batch is in errors with the API's error text,
\* nothing is added to retried and no retry round starts for the batch, and
\* the loop moves on to its next batch; with an input free of duplicates no
\* later request carries an id that holds the API's error text
C29_ApiErrorFailsBatchWithoutRetry ==
  [][ /\ (ResponseStep("batch") /\ thHist'.last.kind = "err") =>
           LET f == thStack[Len(thStack)]
           IN  /\ \A id \in Range(thPending) :
                    /\ id \in DOMAIN thErrors'
                    /\ thErrors'[id] = <<"API Error", "err">>
               /\ UNCHANGED <<thImages, thRetried>>
               /\ thHist'.entered = thHist.entered
               /\ IF f.i + batchSize <= Len(f.nodeIds)
                    THEN /\ thPc' = "running"
                         /\ thStack' = [thStack EXCEPT ![Len(thStack)].i = f.i + batchSize]
                    ELSE Len(thStack') < Len(thStack)
      /\ (thPending = <<>> /\ thPending' # <<>>
            /\ Cardinality(Range(thInput)) = Len(thInput)) =>
           \A id \in Range(thPending') :
             ~(id \in DOMAIN thErrors /\ thErrors[id] = <<"API Error", "err">>)
    ]_vars

\* a fetch of two batches whose first batch was answered with a structured
\* error: its id holds the API's error text, was requested once and is not in
\* retried, and the second batch was requested and answered with a URL
C29_Witness ==
  /\ thPc = "done"
  /\ Len(thInput) > batchSize
  /\ thInput[1] # thInput[Len(thInput)]
  /\ thErrors[thInput[1]] = ApiError
  /\ thHist.requests[thInput[1]] = 1
  /\ thRetried = <<>>
  /\ thInput[Len(thInput)] \in DOMAIN thImages

\* C30: at most one image request is in flight: a request is issued only
\* while none is pending; a batch request carries at most 20 ids, the slice of
\* its call's ids at the call's position, and positions only move forward, so
\* batches go out in input order; when the outermost call issues a batch,
\* every id of its earlier batches has its image or error, and no retry round
\* or per-id pass of an earlier batch is still active; a per-id request
\* carries one id, the one at the position of its pass
C30_OneRequestAtATime ==
  /\ [](/\ Len(thPending) <= 20
        /\ thPending # <<>> =>
             LET f == thStack[Len(thStack)]
             IN  /\ thPc = "running"
                 /\ IF f.kind = "batch"
                      THEN thPending = SubSeq(f.nodeIds, f.i,
                                              Min(f.i + 19, Len(f.nodeIds)))
                      ELSE thPending = <<f.nodeIds[f.i]>>
                 /\ Len(thStack) = 1 =>
                      /\ f.nodeIds = Filter(thInput, {id \in Range(thInput) :
                                                        validateNodeId(id)})
                      /\ \A k \in 1..(f.i - 1) :
                           f.nodeIds[k] \in DOMAIN thImages \cup DOMAIN thErrors)
  /\ [][ /\ (thPending' # thPending /\ thPending' # <<>>) =>
              /\ thPending = <<>>
              /\ thStack' = thStack
         /\ \A k \in 1..Min(Len(thStack), Len(thStack')) :
              /\ thStack'[k].nodeIds = thStack[k].nodeIds
              /\ thStack'[k].i >= thStack[k].i
              /\ thStack'[k].i # thStack[k].i => k = Len(thStack')
    ]_vars

\* the second batch of a fetch is in flight after the first batch went through
\* a batch-level retry round and a per-id pass: its id was carried by the
\* batch, by the retry round and by per-id requests, the last response being
\* that of a per-id request
C30_Witness ==
  /\ Len(thInput) > batchSize
  /\ thInput[1] # thInput[Len(thInput)]
  /\ Len(thStack) = 1
  /\ thPending = <<thInput[Len(thInput)]>>
  /\ thInput[1] \in Range(thRetried)
  /\ thHist.requests[thInput[1]] > 2
  /\ thHist.last.call = "individual"

----------------------------------------------------------------------------
(* Further claims about FigmaMcpClient *)

\* C32: giving up. With reconnect enabled and a health check that fails
\* forever, once connect() was the last call made on the client and no
\* further call follows, the client reaches the status `error` with
\* reconnectAttempts = retryAttempts and no reconnect timer pending, and
\* stays there
C32_EventuallyGivesUp ==
  \/ []<><<ExternalCall>>_vars
  \/ <>[](tornDown \/ status = "disconnected")
  \/ <>[](/\ status = "error"
          /\ reconnectAttempts = cfg.retryAttempts
          /\ reconnectTimeout # "armed")

\* C35: with enableReconnect = false no reconnect timer is ever pending and
\* the status is never `reconnecting`
C35_NoReconnectWhenDisabled ==
  ~cfg.enableReconnect =>
    /\ reconnectTimeout # "armed"
    /\ status # "reconnecting"

\* C36: when a connect() resolves, the status is `connected`, or, for a call
\* that returned at once because of the status it found, `connected` or
\* `connecting`
C36_ResolvedConnectIsConnected ==
  /\ (lastOp.op \in {"connectCaller", "connectTimer"} /\ lastOp.result = "resolved")
       => status = "connected"
  /\ (lastOp.op \in {"connect", "reconnectTimer"} /\ lastOp.result = "noop")
       => status \in {"connected", "connecting"}

\* C37: at most one connect() awaits its health check at any time
C37_OneConnectionAttempt ==
  inflight.connectCaller + inflight.connectTimer <= 1

----------------------------------------------------------------------------
(* Further claims about the facade *)

\* C31: a facade constructed in an environment whose detected transport is
\* the broker has called connect() on its broker client in its constructor
C31_ConstructorConnectsToBroker ==
  (env.constructed /\ env.method = "mcp") => env.connects

\* C33: a request answered from the cache sends nothing; any request sends at
\* most one tool call and at most one GET, and the GET only when the broker
\* path did not deliver (the broker is not configured for the request's
\* facade, or its call failed)
C33_OutboundCallsPerRequest ==
  lastOp.op \in RequestOps =>
    /\ fcResult["mcp"].by = "cache" =>
         (fcHist.calls.broker = 0 /\ fcHist.calls.direct = 0)
    /\ fcHist.calls.broker <= 1
    /\ fcHist.calls.direct <= 1
    /\ fcHist.calls.direct = 1 =>
         lastOp.cause \in {"notConnected", "toolRejected", "badResponse"}
    /\ lastOp.cause = "ok" => fcHist.calls.broker = 1

\* a request sent one tool call, which failed, then one GET, which answered
C33_Witness ==
  /\ lastOp.op = "getTeamProjects" /\ lastOp.cause = "toolRejected"
  /\ fcHist.calls = [broker |-> 1, direct |-> 1]
  /\ fcResult["mcp"].by = "direct" /\ fcResult["mcp"].kind = "data"

\* C34: when the broker path and the direct call both fail for
\* getTeamProjects, the caller gets the error of the direct call and the
\* cache is left as it was
C34_DirectErrorPropagates ==
  [][ (/\ lastOp'.op = "getTeamProjects"
       /\ lastOp'.cause \in {"noToken", "notConnected", "toolRejected", "badResponse"}
       /\ fcResult'["mcp"].kind = "error")
        => /\ fcResult'["mcp"].by = "direct"
           /\ fcResult'["mcp"].message
                \in {"Access token is required"}
                      \cup {formatApiError(o) : o \in {d \in DirectOutcomes : d.kind # "ok"}}
           /\ fcCache' = fcCache ]_vars

\* the broker rejected the tool call and the GET ended with a 404: the
\* caller has the error of the GET
C34_Witness ==
  /\ lastOp.op = "getTeamProjects" /\ lastOp.cause = "toolRejected"
  /\ fcHist.calls = [broker |-> 1, direct |-> 1]
  /\ fcResult["mcp"] = Thrown("Resource not found - check file/node ID", "direct")

\* C38: no replaced broker client is left with a running health-check
\* interval or a pending reconnect timer
C38_ReplacedClientHasNoTimers ==
  /\ ~fcHist.replaced.healthCheckInterval
  /\ ~fcHist.replaced.reconnectTimeout

\* C39: a request answered from the cache returns data that was fetched with
\* the token the facade holds now
C39_NoDataAcrossTokens ==
  [][ (lastOp'.op = "getFile" /\ fcResult'["mcp"].by = "cache")
        => LET key == cacheKey(EndpointOf("getFile"), ParamsOf("getFile"))
           IN  key \in DOMAIN fcHist.owner /\ fcHist.owner[key] = fcToken ]_vars

\* C40: the cache never holds a mock dataset; a request that ends with a mock
\* leaves the cache as it was; and the request that follows it for the same
\* resource (with a token) sends a tool call or a GET again
C40_MockIsNotSticky ==
  /\ [](\A key \in DOMAIN fcCache["mcp"] :
          \A op \in DOMAIN mockData : fcCache["mcp"][key].data # mockData[op])
  /\ [][ /\ (lastOp'.op \in RequestOps /\ fcResult'["mcp"].by = "mock")
              => fcCache' = fcCache
         /\ (lastOp'.op \in RequestOps /\ lastOp.op = lastOp'.op
               /\ fcResult["mcp"].by = "mock" /\ fcToken # "")
              => fcHist'.calls.broker + fcHist'.calls.direct >= 1 ]_vars

====
